---- MODULE Spec2Model ----
(***************************************************************************)
(* Replica placement (scheduling filters and policies) of the control      *)
(* plane, modelled from control-plane/agents/src/bin/core/controller/      *)
(* scheduling.  Byte quantities are counted in MiB, so that the 16 MiB      *)
(* free space watermark is the number 16.                                   *)
(*                                                                          *)
(* An Option<T> is a sequence of length 0 (None) or 1 (Some).  A label map  *)
(* (HashMap<String, String>) is a function from a set of keys to values.    *)
(***************************************************************************)
EXTENDS Integers, Sequences, FiniteSets, TLC

VARIABLES
    nodes,      \* registry: node id -> [status, cordoned, labels (Option of the node spec's labels)]
    pools,      \* registry: pool id -> [node, status, capacity, used, committed, labels (Option of the pool spec's labels)]
    volumes,    \* registry: volume id -> [size, thin]
    replicas,   \* registry: volume id -> pool id -> number of replicas of the volume on the pool
    moving,     \* volume id -> Option of the pool of the replica being moved
    phase,      \* "idle" | "request" | "filtered": position of the scheduling call
    req,        \* the request context of the last scheduling call
    list,       \* the candidate list handed to the last scheduling call
    result,     \* the list it returned
    outcome,    \* what the caller reported: [kind, have, need, chosen]
    commit,     \* Option of the allowed commit percent (Some when the policy checks overcommit)
    states,     \* ResourceStates: [pools, replicas, nexuses, snapshots], each a map id -> state
    rwlock,     \* the RwLock around ResourceStates: [writer: BOOLEAN, readers: set of readers]
    writer,     \* the task writing the states: [pc, step, op, before, last]
    reader,     \* reader -> [pc, seen]: the maps read under the current read lock
    pool_specs, \* ResourceSpecs: pool id -> [present, guard (Option of the operation holding it)]
    ops,        \* operation of the pool service -> [name, pool, pc, rsc (what locked_pool returned)]
    cr,         \* the DiskPool CR: [exists, disks, status (Option), created (its status has been Created), deleting (deletion timestamp), finalizer]
    inventory,  \* OperatorContext::inventory: Option of the ResourceContext stored under the CR's name
    event_info, \* ResourceContext::event_info of that context: the messages notified so far
    cp,         \* the pool on the control plane: Option of [state (Option of the pool state's status)]
    pass,       \* the reconcile pass in progress, or the last one: [pc, dsp, calls, pool, events, patched, error, result, policy, cleanup (Option of what the finalizer cleanup returned)]
    msps,       \* the MayastorPool CRs of the namespace: name -> [node, disks]
    dsps,       \* the DiskPool CRs of the namespace: name -> [node, disks]
    mig,        \* the startup migration: [pc, todo (the MayastorPools listed), declared, calls, result, runs]
    sort_criterias, \* SortBuilder::sort_criterias: the criteria added so far
    items,      \* the pool items handed to ResourceFilter::sort, in insertion order
    sorted,     \* Option of the list after the sort
    operands,   \* the values handed to a comparator: <<a, b, c>>
    orderings,  \* Option of what the comparator returned for the pairs of operands
    invoked,    \* a call of a filter or of a service operation: its arguments
    returned,   \* Option of what the call returned
    revision,   \* the API server: the resource version of its last write
    issued,     \* the API server: the DiskPool objects it has served, [name, resource_version, status]
    contexts,   \* OperatorContext::inventory as a map: CR name -> Option of [inner, num_retries]
    upserted    \* Option of the last call of OperatorContext::upsert: [resource, before, panic, returned]

schedVars == <<nodes, pools, volumes, replicas, moving, phase, req, list, result, outcome, commit>>
registryVars == <<states, rwlock, writer, reader>>
guardVars == <<pool_specs, ops>>
operatorVars == <<cr, inventory, event_info, cp, pass>>
migrateVars == <<msps, dsps, mig>>
sortVars == <<sort_criterias, items, sorted>>
orderVars == <<operands, orderings>>
callVars == <<invoked, returned>>
upsertVars == <<revision, issued, contexts, upserted>>
nonSchedVars == <<registryVars, guardVars, operatorVars, migrateVars, sortVars, orderVars, callVars, upsertVars>>
notRegistryVars == <<schedVars, guardVars, operatorVars, migrateVars, sortVars, orderVars, callVars, upsertVars>>
notGuardVars == <<schedVars, registryVars, operatorVars, migrateVars, sortVars, orderVars, callVars, upsertVars>>
notOperatorVars == <<schedVars, registryVars, guardVars, migrateVars, sortVars, orderVars, callVars, upsertVars>>
notMigrateVars == <<schedVars, registryVars, guardVars, operatorVars, sortVars, orderVars, callVars, upsertVars>>
notSortVars == <<schedVars, registryVars, guardVars, operatorVars, migrateVars, orderVars, callVars, upsertVars>>
notOrderVars == <<schedVars, registryVars, guardVars, operatorVars, migrateVars, sortVars, callVars, upsertVars>>
notCallVars == <<schedVars, registryVars, guardVars, operatorVars, migrateVars, sortVars, orderVars, upsertVars>>
notUpsertVars == <<schedVars, registryVars, guardVars, operatorVars, migrateVars, sortVars, orderVars, callVars>>
vars == <<schedVars, nonSchedVars>>

\* ------------------------------------------------------------------------
\* Bounds and universes
\* ------------------------------------------------------------------------
NodeIds == {"A", "B", "C"}
AllPoolIds == {"a1", "b1", "b2", "c1"}
PlacePoolIds == {"a1", "b1", "b2"}
VolumeIds == {"v1", "v2"}
LabelKeys == {"zone", "rack"}
LabelValues == {"eu", "us"}
Wildcard == ""

NodeOfPool(p) == CASE p = "a1" -> "A" [] p = "b1" -> "B" [] p = "b2" -> "B" [] OTHER -> "C"

None == <<>>
Some(x) == <<x>>
IsSome(o) == Len(o) = 1
Unwrap(o) == o[1]

\* All label maps with keys among K and values among V.
LabelMaps(K, V) == UNION {[D -> V] : D \in SUBSET K}
EmptyMap == [k \in {} |-> ""]

SeqToSet(s) == {s[i] : i \in 1..Len(s)}

\* ------------------------------------------------------------------------
\* The parts of the control plane that take no step while replicas are placed
\* ------------------------------------------------------------------------
Readers == {"reader1"}
NoStates == [pools |-> EmptyMap, replicas |-> EmptyMap, nexuses |-> EmptyMap, snapshots |-> EmptyMap]
NoOp == [name |-> "none"]
IdleWriter == [pc |-> "idle", step |-> 0, op |-> NoOp, before |-> NoStates, last |-> None]
IdleReader == [pc |-> "idle", seen |-> EmptyMap]

RegistryIdle ==
    /\ states = NoStates
    /\ rwlock = [writer |-> FALSE, readers |-> {}]
    /\ writer = IdleWriter
    /\ reader = [r \in Readers |-> IdleReader]

GuardPoolIds == {"p1", "p2"}
Ops == {"op1", "op2", "op3"}
IdleOp == [name |-> "none", pool |-> "", pc |-> "idle", rsc |-> None]

GuardsIdle ==
    /\ pool_specs = [p \in GuardPoolIds |-> [present |-> FALSE, guard |-> None]]
    /\ ops = [o \in Ops |-> IdleOp]

NoPass ==
    [pc |-> "idle", dsp |-> None, calls |-> <<>>, pool |-> None, events |-> <<>>,
     patched |-> <<>>, error |-> <<>>, result |-> None, policy |-> None, cleanup |-> None]

OperatorIdle ==
    /\ cr = [exists |-> FALSE, disks |-> <<>>, status |-> None, created |-> FALSE, deleting |-> FALSE,
             finalizer |-> FALSE]
    /\ inventory = None
    /\ event_info = {}
    /\ cp = None
    /\ pass = NoPass

NoMigration == [pc |-> "idle", todo |-> <<>>, declared |-> {}, calls |-> <<>>, result |-> "", runs |-> 1]

MigrateIdle ==
    /\ msps = EmptyMap
    /\ dsps = EmptyMap
    /\ mig = NoMigration

SortIdle ==
    /\ sort_criterias = <<>>
    /\ items = <<>>
    /\ sorted = None

OrderIdle ==
    /\ operands = <<>>
    /\ orderings = None

CallIdle ==
    /\ invoked = None
    /\ returned = None

UpsertIdle ==
    /\ revision = 0
    /\ issued = {}
    /\ contexts = <<>>
    /\ upserted = None

NonSchedIdle == RegistryIdle /\ GuardsIdle /\ OperatorIdle /\ MigrateIdle /\ SortIdle /\ OrderIdle /\ CallIdle /\ UpsertIdle

\* ------------------------------------------------------------------------
\* Registry helpers used by the filters
\* ------------------------------------------------------------------------
\* NodeWrapper::is_online
is_online(n) == nodes[n].status = "Online"

\* ResourceSpecsLocked::cordoned_nodes
cordoned_nodes == {n \in DOMAIN nodes : nodes[n].cordoned}

\* ResourceSpecsLocked::volume_data_nodes: the nodes holding a replica of the volume
volume_data_nodes(uuid) == {pools[p].node : p \in {q \in DOMAIN pools : replicas[uuid][q] > 0}}

\* PoolWrapper::free_space
free_space(p) == IF pools[p].capacity >= pools[p].used THEN pools[p].capacity - pools[p].used ELSE 0

\* PoolWrapper::commitment
commitment(p) == pools[p].committed

\* ------------------------------------------------------------------------
\* NodeFilters (for pools)
\* ------------------------------------------------------------------------
NodeFilters_online_for_pool(request, item) == is_online(pools[item].node)

NodeFilters_allowed(request, item) ==
    request.allowed_nodes = {} \/ pools[item].node \in request.allowed_nodes

\* NodeFilters::unused without the comparison of the moving replica's pool.
NodeFilters_unused_any_pool(request, item) ==
    IF /\ IsSome(request.move_repl)
       /\ Unwrap(request.move_repl).node = pools[item].node
    THEN TRUE
    ELSE pools[item].node \notin volume_data_nodes(request.uuid)

\* NodeFilters::unused looking for the pool id among the used nodes.
NodeFilters_unused_pool_id(request, item) ==
    IF /\ IsSome(request.move_repl)
       /\ Unwrap(request.move_repl).node = pools[item].node
       /\ Unwrap(request.move_repl).pool # item
    THEN TRUE
    ELSE item \notin volume_data_nodes(request.uuid)

NodeFilters_unused(request, item) ==
    IF /\ IsSome(request.move_repl)
       /\ Unwrap(request.move_repl).node = pools[item].node
       /\ Unwrap(request.move_repl).pool # item
    THEN TRUE
    ELSE pools[item].node \notin volume_data_nodes(request.uuid)

NodeFilters_cordoned_for_pool(request, item) ==
    ~ \E node_spec \in cordoned_nodes : node_spec = pools[item].node

\* ------------------------------------------------------------------------
\* PoolBaseFilters
\* ------------------------------------------------------------------------
\* 16 * 1024 * 1024 bytes
free_space_watermark == 16

\* PoolBaseFilters::capacity with a non-strict comparison.
PoolBaseFilters_capacity_or_equal(request, item) == pools[item].capacity >= request.size

PoolBaseFilters_capacity(request, item) == pools[item].capacity > request.size

\* PoolBaseFilters::overcommit without the requested size.
PoolBaseFilters_overcommit_no_size(request, item, allowed_commit_percent) ==
    IF request.thin
    THEN LET max_cap_allowed == allowed_commit_percent * pools[item].capacity
         IN  commitment(item) * 100 < max_cap_allowed
    ELSE TRUE

PoolBaseFilters_overcommit(request, item, allowed_commit_percent) ==
    IF request.thin
    THEN LET max_cap_allowed == allowed_commit_percent * pools[item].capacity
         IN  (request.size + commitment(item)) * 100 < max_cap_allowed
    ELSE TRUE

PoolBaseFilters_min_free_space(request, item) ==
    IF request.thin
    THEN free_space(item) > free_space_watermark
    ELSE free_space(item) > request.size

PoolBaseFilters_usable(request, item) ==
    pools[item].status # "Faulted" /\ pools[item].status # "Unknown"

PoolBaseFilters_topology(request, item) ==
    IF ~IsSome(request.topology) THEN TRUE
    ELSE IF ~IsSome(Unwrap(request.topology).pool) THEN TRUE
    ELSE LET labelled_topology == Unwrap(Unwrap(request.topology).pool)
             volume_pool_topology_labels == labelled_topology.inclusion
         IN  IF DOMAIN labelled_topology.inclusion = {} THEN TRUE
             ELSE IF ~IsSome(pools[item].labels) THEN FALSE
             ELSE LET label == Unwrap(pools[item].labels)
                  IN  \A vol_key \in DOMAIN volume_pool_topology_labels :
                        /\ vol_key \in DOMAIN label
                        /\ \/ volume_pool_topology_labels[vol_key] = Wildcard
                           \/ label[vol_key] = volume_pool_topology_labels[vol_key]

\* ------------------------------------------------------------------------
\* ResourceFilter::filter and DefaultBasePolicy
\* ------------------------------------------------------------------------
\* ResourceFilter::filter is Vec::retain, which keeps the items satisfying
\* the predicate in their order: SelectSeq.
DefaultBasePolicy_filter_nodes(request, l) ==
    LET cordoned_for_pool(v) == NodeFilters_cordoned_for_pool(request, v)
        online_for_pool(v) == NodeFilters_online_for_pool(request, v)
        allowed(v) == NodeFilters_allowed(request, v)
        unused(v) == NodeFilters_unused(request, v)
    IN  SelectSeq(SelectSeq(SelectSeq(SelectSeq(l,
          cordoned_for_pool), online_for_pool), allowed), unused)

DefaultBasePolicy_filter_pools(request, l) ==
    LET usable(v) == PoolBaseFilters_usable(request, v)
        capacity(v) == PoolBaseFilters_capacity(request, v)
        min_free_space(v) == PoolBaseFilters_min_free_space(request, v)
        topology(v) == PoolBaseFilters_topology(request, v)
    IN  SelectSeq(SelectSeq(SelectSeq(SelectSeq(l,
          usable), capacity), min_free_space), topology)

DefaultBasePolicy_filter(request, l) ==
    DefaultBasePolicy_filter_pools(request, DefaultBasePolicy_filter_nodes(request, l))

\* ------------------------------------------------------------------------
\* The registry after a fresh start, and the callers of the add-replica policy
\* ------------------------------------------------------------------------
\* The sizes (MiB) of the writes that make a thin replica allocate, and the
\* number of nodes that are cordoned at a time.
WriteSizes == {8}
MaxCordoned == 1

PoolCapacity(p) == CASE p = "a1" -> 24 [] p = "b1" -> 40 [] OTHER -> 64

\* Bytes of the thick replicas of the volumes S on pool p.
RECURSIVE ThickBytesOf(_, _)
ThickBytesOf(S, p) ==
    IF S = {} THEN 0
    ELSE LET v == CHOOSE y \in S : TRUE
         IN  (IF volumes[v].thin THEN 0 ELSE replicas[v][p] * volumes[v].size)
               + ThickBytesOf(S \ {v}, p)

ThickBytes(p) == ThickBytesOf(DOMAIN volumes, p)

NoRequest ==
    [uuid |-> "", size |-> 0, thin |-> FALSE, allowed_nodes |-> {}, move_repl |-> None,
     topology |-> None]

NoOutcome == [kind |-> "none", have |-> 0, need |-> 0, chosen |-> None]

\* GetSuitablePoolsContext of an add-replica request for volume v.
AddReplicaRequest(v, mv) ==
    [uuid |-> v, size |-> volumes[v].size, thin |-> volumes[v].thin, allowed_nodes |-> {},
     move_repl |-> mv, topology |-> None]

\* GetSuitablePools: every pool of the registry is an item.
RECURSIVE SetToSeq(_)
SetToSeq(S) ==
    IF S = {} THEN <<>>
    ELSE LET x == CHOOSE y \in S : TRUE IN <<x>> \o SetToSeq(S \ {x})

PoolItems == SetToSeq(DOMAIN pools)

\* The policy applied to an add-replica request: the base filters and, when a
\* commit percent is configured, the overcommit filter.
RetainOvercommit(request, l, percent) ==
    LET overcommit(v) == PoolBaseFilters_overcommit(request, v, percent) IN SelectSeq(l, overcommit)

AddReplicaPolicy(request, l) ==
    IF IsSome(commit)
    THEN RetainOvercommit(request, DefaultBasePolicy_filter(request, l), Unwrap(commit))
    ELSE DefaultBasePolicy_filter(request, l)

\* The pool after a replica of volume v was created on it.
PoolWithReplica(p, v) ==
    [pools[p] EXCEPT !.committed = @ + volumes[v].size,
                     !.used = IF volumes[v].thin THEN @ ELSE @ + volumes[v].size]

\* The record of the last scheduling call is dropped by the steps that are
\* not scheduling calls.
Forget ==
    /\ req' = NoRequest
    /\ list' = <<>>
    /\ result' = <<>>
    /\ outcome' = NoOutcome

NotEnoughOfPools == [kind |-> "NotEnough::OfPools", have |-> 0, need |-> 1, chosen |-> None]

PlaceInit ==
    /\ NonSchedIdle
    /\ nodes = [n \in NodeIds |-> [status |-> "Online", cordoned |-> FALSE, labels |-> Some(EmptyMap)]]
    /\ pools = [p \in PlacePoolIds |->
                  [node |-> NodeOfPool(p), status |-> "Online", capacity |-> PoolCapacity(p),
                   used |-> 0, committed |-> 0, labels |-> None]]
    /\ volumes \in {[v \in VolumeIds |-> [size |-> 8, thin |-> TRUE]],
                    [v \in VolumeIds |-> [size |-> 24, thin |-> FALSE]],
                    [v \in VolumeIds |-> IF v = "v1" THEN [size |-> 8, thin |-> TRUE]
                                                    ELSE [size |-> 24, thin |-> FALSE]]}
    /\ replicas = [v \in VolumeIds |-> [p \in PlacePoolIds |-> 0]]
    /\ moving = [v \in VolumeIds |-> None]
    /\ phase = "idle"
    /\ req = NoRequest
    /\ list = <<>>
    /\ result = <<>>
    /\ outcome = NoOutcome
    /\ commit \in {None, Some(50)}

\* An add-replica request whose candidate list is not empty: the caller creates
\* the replica on one of the candidates and the registry records it.
AddReplica(v) ==
    LET request == AddReplicaRequest(v, None)
        candidates == AddReplicaPolicy(request, PoolItems)
    IN  /\ phase = "idle"
        /\ candidates # <<>>
        /\ \E c \in SeqToSet(candidates) :
             /\ replicas' = [replicas EXCEPT ![v][c] = @ + 1]
             /\ pools' = [pools EXCEPT ![c] = PoolWithReplica(c, v)]
             /\ outcome' = [kind |-> "ok", have |-> Len(candidates), need |-> 1, chosen |-> Some(c)]
        /\ req' = request
        /\ list' = PoolItems
        /\ result' = candidates
        /\ UNCHANGED <<nodes, volumes, moving, phase, commit>>
        /\ UNCHANGED nonSchedVars

\* An add-replica request whose candidate list is empty.
AddReplicaNotEnough(v, mv) ==
    LET request == AddReplicaRequest(v, mv)
        candidates == AddReplicaPolicy(request, PoolItems)
    IN  /\ phase = "idle"
        /\ IsSome(mv) => moving[v] = None
        /\ candidates = <<>>
        /\ req' = request
        /\ list' = PoolItems
        /\ result' = candidates
        /\ outcome' = NotEnoughOfPools
        /\ UNCHANGED <<nodes, pools, volumes, replicas, moving, phase, commit>>
        /\ UNCHANGED nonSchedVars

\* The ReplicaMove values naming a replica of volume v.
MoveRepls(v) ==
    {Some([node |-> pools[p].node, pool |-> p]) : p \in {q \in DOMAIN pools : replicas[v][q] > 0}}

\* The first half of a replica move: a new replica is scheduled with
\* move_repl naming the replica on pool p, which stays until the move ends.
MoveReplica(v, p) ==
    LET request == AddReplicaRequest(v, Some([node |-> pools[p].node, pool |-> p]))
        candidates == AddReplicaPolicy(request, PoolItems)
    IN  /\ phase = "idle"
        /\ moving[v] = None
        /\ replicas[v][p] > 0
        /\ candidates # <<>>
        /\ \E c \in SeqToSet(candidates) :
             /\ replicas' = [replicas EXCEPT ![v][c] = @ + 1]
             /\ pools' = [pools EXCEPT ![c] = PoolWithReplica(c, v)]
             /\ outcome' = [kind |-> "ok", have |-> Len(candidates), need |-> 1, chosen |-> Some(c)]
        /\ moving' = [moving EXCEPT ![v] = Some(p)]
        /\ req' = request
        /\ list' = PoolItems
        /\ result' = candidates
        /\ UNCHANGED <<nodes, volumes, phase, commit>>
        /\ UNCHANGED nonSchedVars

\* The pool after a replica of volume v was destroyed on it, its used bytes
\* being u.
PoolWithoutReplica(p, v, u) ==
    [pools[p] EXCEPT !.committed = @ - volumes[v].size, !.used = u]

\* The used bytes a pool may report after a replica of volume v is destroyed:
\* a thick replica frees its size, a thin replica frees what it had allocated,
\* which leaves the bytes of the thick replicas and at most the remaining
\* commitment.
UsedAfterDestroy(p, v) ==
    IF volumes[v].thin
    THEN LET least == IF pools[p].used - volumes[v].size > ThickBytes(p)
                      THEN pools[p].used - volumes[v].size ELSE ThickBytes(p)
             most == IF pools[p].used < pools[p].committed - volumes[v].size
                     THEN pools[p].used ELSE pools[p].committed - volumes[v].size
         IN  {u \in least..most : \E w \in WriteSizes : (u - least) % w = 0}
    ELSE {pools[p].used - volumes[v].size}

\* The second half of a replica move: the moved replica is destroyed.
FinishMove(v) ==
    /\ phase = "idle"
    /\ IsSome(moving[v])
    /\ LET p == Unwrap(moving[v])
       IN  /\ replicas' = [replicas EXCEPT ![v][p] = @ - 1]
           /\ \E u \in UsedAfterDestroy(p, v) :
                pools' = [pools EXCEPT ![p] = PoolWithoutReplica(p, v, u)]
    /\ moving' = [moving EXCEPT ![v] = None]
    /\ Forget
    /\ UNCHANGED <<nodes, volumes, phase, commit>>
    /\ UNCHANGED nonSchedVars

\* A replica of the volume is removed (the volume's replica count decreases).
RemoveReplica(v, p) ==
    /\ phase = "idle"
    /\ moving[v] = None
    /\ replicas[v][p] > 0
    /\ replicas' = [replicas EXCEPT ![v][p] = @ - 1]
    /\ \E u \in UsedAfterDestroy(p, v) :
         pools' = [pools EXCEPT ![p] = PoolWithoutReplica(p, v, u)]
    /\ Forget
    /\ UNCHANGED <<nodes, volumes, moving, phase, commit>>
    /\ UNCHANGED nonSchedVars

\* A thin replica on the pool allocates one more quantum.
WriteThin(p) ==
    /\ phase = "idle"
    /\ \E w \in WriteSizes :
         /\ pools[p].used + w <= pools[p].committed
         /\ pools[p].used + w <= pools[p].capacity
         /\ pools' = [pools EXCEPT ![p].used = @ + w]
    /\ Forget
    /\ UNCHANGED <<nodes, volumes, replicas, moving, phase, commit>>
    /\ UNCHANGED nonSchedVars

CordonNode(n) ==
    /\ phase = "idle"
    /\ ~nodes[n].cordoned
    /\ Cardinality(cordoned_nodes) < MaxCordoned
    /\ nodes' = [nodes EXCEPT ![n].cordoned = TRUE]
    /\ Forget
    /\ UNCHANGED <<pools, volumes, replicas, moving, phase, commit>>
    /\ UNCHANGED nonSchedVars

UncordonNode(n) ==
    /\ phase = "idle"
    /\ nodes[n].cordoned
    /\ nodes' = [nodes EXCEPT ![n].cordoned = FALSE]
    /\ Forget
    /\ UNCHANGED <<pools, volumes, replicas, moving, phase, commit>>
    /\ UNCHANGED nonSchedVars

PlaceNext ==
    \/ \E v \in VolumeIds : AddReplica(v)
    \/ \E v \in VolumeIds : \E mv \in {None} \cup MoveRepls(v) : AddReplicaNotEnough(v, mv)
    \/ \E v \in VolumeIds, p \in DOMAIN pools : MoveReplica(v, p)
    \/ \E v \in VolumeIds : FinishMove(v)
    \/ \E v \in VolumeIds, p \in DOMAIN pools : RemoveReplica(v, p)
    \/ \E p \in DOMAIN pools : WriteThin(p)
    \/ \E n \in NodeIds : CordonNode(n)
    \/ \E n \in NodeIds : UncordonNode(n)

PlaceSpec == PlaceInit /\ [][PlaceNext]_vars

\* C1: after any sequence of add-replica placements no node hosts more than
\* one replica of a volume, except that during a replica move the source
\* node hosts the moving replica and at most one new replica on another pool.
ReplicaPoolsOn(v, n) == {p \in DOMAIN pools : pools[p].node = n /\ replicas[v][p] > 0}

OneReplicaPerNode ==
    \A v \in VolumeIds :
      /\ \A p \in DOMAIN pools : replicas[v][p] <= 1
      /\ \A n \in NodeIds :
           \/ Cardinality(ReplicaPoolsOn(v, n)) <= 1
           \/ /\ IsSome(moving[v])
              /\ pools[Unwrap(moving[v])].node = n
              /\ Unwrap(moving[v]) \in ReplicaPoolsOn(v, n)
              /\ Cardinality(ReplicaPoolsOn(v, n)) = 2

\* Witness of C1: a move in progress with two replicas on the source node,
\* and replicas of the volume on the two other nodes.
OneReplicaPerNodeWitness ==
    \E v \in VolumeIds :
      /\ IsSome(moving[v])
      /\ Cardinality(ReplicaPoolsOn(v, "B")) = 2
      /\ Cardinality(ReplicaPoolsOn(v, "A")) = 1
      /\ outcome.kind = "ok"

\* C5: after any sequence of placements admitted by capacity, min_free_space
\* and (thin) overcommit, the used plus pending bytes of a pool holding thin
\* replicas never exceed capacity * overcommit_ratio / 100, and those of a pool
\* holding thick replicas never exceed its capacity.
Pending(p) == pools[p].committed - pools[p].used

ReplicasOnPool(p) == {v \in DOMAIN volumes : replicas[v][p] > 0}

PoolWithinCommitment ==
    \A p \in DOMAIN pools :
      /\ (/\ IsSome(commit)
          /\ ReplicasOnPool(p) # {}
          /\ \A v \in ReplicasOnPool(p) : volumes[v].thin)
           => pools[p].used + Pending(p) <= (pools[p].capacity * Unwrap(commit)) \div 100
      /\ (/\ ReplicasOnPool(p) # {}
          /\ \A v \in ReplicasOnPool(p) : ~volumes[v].thin)
           => pools[p].used + Pending(p) <= pools[p].capacity

\* Witness of C5: a thin replica was placed while a pool that holds thin
\* replicas and passes the base filters was refused by the overcommit filter.
PoolWithinCommitmentWitness ==
    /\ IsSome(commit)
    /\ outcome.kind = "ok"
    /\ req.thin
    /\ \E p \in DOMAIN pools :
         /\ replicas[req.uuid][p] = 0
         /\ ReplicasOnPool(p) # {}
         /\ \A v \in ReplicasOnPool(p) : volumes[v].thin
         /\ p \in SeqToSet(DefaultBasePolicy_filter(req, list))
         /\ p \notin SeqToSet(result)

\* ------------------------------------------------------------------------
\* One add-replica scheduling call on an arbitrary registry
\* ------------------------------------------------------------------------
\* The states of a node: connectivity and cordon.
NodeProfiles ==
    {[status |-> "Online", cordoned |-> FALSE, labels |-> Some(EmptyMap)],
     [status |-> "Offline", cordoned |-> FALSE, labels |-> Some(EmptyMap)],
     [status |-> "Online", cordoned |-> TRUE, labels |-> Some(EmptyMap)],
     [status |-> "Unknown", cordoned |-> TRUE, labels |-> Some(EmptyMap)]}

\* The states of a pool: [status, capacity, used, committed, labels].
PoolProfiles ==
    {[status |-> "Online", capacity |-> 64, used |-> 0, committed |-> 0,
      labels |-> Some([k \in {"zone"} |-> "eu"])],
     [status |-> "Degraded", capacity |-> 64, used |-> 40, committed |-> 40,
      labels |-> Some([k \in {"zone"} |-> "us"])],
     [status |-> "Faulted", capacity |-> 64, used |-> 0, committed |-> 0, labels |-> None],
     [status |-> "Unknown", capacity |-> 64, used |-> 0, committed |-> 0,
      labels |-> Some([k \in {"zone"} |-> "eu"])],
     [status |-> "Online", capacity |-> 24, used |-> 0, committed |-> 0,
      labels |-> Some([k \in {"zone", "rack"} |-> "eu"])],
     [status |-> "Online", capacity |-> 64, used |-> 48, committed |-> 56, labels |-> None]}

GoodPool == [status |-> "Online", capacity |-> 64, used |-> 0, committed |-> 0,
             labels |-> Some([k \in {"zone"} |-> "eu"])]

PoolOn(p, profile) ==
    [node |-> NodeOfPool(p), status |-> profile.status, capacity |-> profile.capacity,
     used |-> profile.used, committed |-> profile.committed, labels |-> profile.labels]

\* The pools holding the replicas of volume v1, with the pool of the replica
\* being moved, if any.
ReplicaLayouts ==
    {[on |-> {}, moving |-> None],
     [on |-> {"a1", "b1"}, moving |-> None],
     [on |-> {"b2"}, moving |-> None],
     [on |-> {"a1", "b1", "b2"}, moving |-> Some("b1")]}

PoolTopologies ==
    {None,
     Some([node |-> None, pool |-> None]),
     Some([node |-> None,
           pool |-> Some([inclusion |-> [k \in {"zone"} |-> "eu"], exclusion |-> EmptyMap])]),
     Some([node |-> None,
           pool |-> Some([inclusion |-> [k \in {"zone"} |-> Wildcard], exclusion |-> EmptyMap])])}

ListOrders == {<<"a1", "b1", "b2", "c1">>, <<"c1", "b2", "a1">>}

FilterInit ==
    /\ NonSchedIdle
    /\ \E na \in {x \in NodeProfiles : x.status # "Unknown"}, nb \in NodeProfiles :
         nodes = [n \in NodeIds |->
                    IF n = "A" THEN na ELSE IF n = "B" THEN nb
                    ELSE [status |-> "Online", cordoned |-> FALSE, labels |-> Some(EmptyMap)]]
    /\ \E p1 \in PoolProfiles, p2 \in PoolProfiles :
         pools = [p \in AllPoolIds |->
                    IF p = "b1" THEN PoolOn(p, p1) ELSE IF p = "b2" THEN PoolOn(p, p2)
                    ELSE PoolOn(p, GoodPool)]
    /\ \E size \in {8, 24}, thin \in BOOLEAN :
         volumes = [v \in VolumeIds |-> [size |-> size, thin |-> thin]]
    /\ \E layout \in ReplicaLayouts :
         /\ replicas = [v \in VolumeIds |->
                          [p \in AllPoolIds |-> IF v = "v1" /\ p \in layout.on THEN 1 ELSE 0]]
         /\ moving = [v \in VolumeIds |-> IF v = "v1" THEN layout.moving ELSE None]
    /\ phase = "request"
    /\ \E allowed \in {{}, {"A", "B"}}, topology \in PoolTopologies :
         \E mv \in {None} \cup (IF moving["v1"] = None THEN MoveRepls("v1") ELSE {}) :
           req = [uuid |-> "v1", size |-> volumes["v1"].size, thin |-> volumes["v1"].thin,
                  allowed_nodes |-> allowed, move_repl |-> mv, topology |-> topology]
    /\ list \in ListOrders
    /\ result = <<>>
    /\ outcome = NoOutcome
    /\ commit = None

\* GetSuitablePools with the default policy, and what the caller reports.
FilterPools ==
    /\ phase = "request"
    /\ phase' = "filtered"
    /\ result' = DefaultBasePolicy_filter(req, list)
    /\ outcome' = IF result' = <<>> THEN NotEnoughOfPools
                  ELSE [kind |-> "ok", have |-> Len(result'), need |-> 1, chosen |-> None]
    /\ UNCHANGED <<nodes, pools, volumes, replicas, moving, req, list, commit>>
    /\ UNCHANGED nonSchedVars

FilterNext == FilterPools

FilterSpec == FilterInit /\ [][FilterNext]_vars

\* C2: NodeFilters::unused keeps a pool for a request on volume V if and only
\* if the pool's node is not in volume_data_nodes(V), or the request's
\* move_repl names the pool's node and another pool; with replicas on a1 and
\* b1 and move_repl = (B, b1), b2 is kept and a1 and b1 are not.
UnusedKeepsExactly ==
    /\ \A item \in DOMAIN pools :
         NodeFilters_unused(req, item)
           <=> \/ \A q \in DOMAIN pools : replicas[req.uuid][q] > 0 => pools[q].node # pools[item].node
               \/ \E mv \in SeqToSet(req.move_repl) : mv.node = pools[item].node /\ mv.pool # item
    /\ phase = "filtered" =>
         \A item \in SeqToSet(result) :
           \/ \A q \in DOMAIN pools : replicas[req.uuid][q] > 0 => pools[q].node # pools[item].node
           \/ \E mv \in SeqToSet(req.move_repl) : mv.node = pools[item].node /\ mv.pool # item
    /\ (/\ {q \in DOMAIN pools : replicas[req.uuid][q] > 0} = {"a1", "b1"}
        /\ req.move_repl = Some([node |-> "B", pool |-> "b1"]))
         => /\ NodeFilters_unused(req, "b2")
            /\ ~NodeFilters_unused(req, "a1")
            /\ ~NodeFilters_unused(req, "b1")
            /\ phase = "filtered" => "a1" \notin SeqToSet(result) /\ "b1" \notin SeqToSet(result)

\* Witness of C2: the move request of scenario S4 was filtered, and b2 is
\* the candidate on node B.
UnusedKeepsExactlyWitness ==
    /\ phase = "filtered"
    /\ {q \in DOMAIN pools : replicas[req.uuid][q] > 0} = {"a1", "b1"}
    /\ req.move_repl = Some([node |-> "B", pool |-> "b1"])
    /\ "b2" \in SeqToSet(result)
    /\ "a1" \in SeqToSet(list) /\ "b1" \in SeqToSet(list)

\* C4: the list returned by DefaultBasePolicy::filter is the sub-list of the
\* input, in its order, of the items whose node is not cordoned, is online,
\* is in the non-empty allow-list and is unused by the volume, and whose pool
\* is usable, has a capacity above the requested size, has the minimum free
\* space and matches the pool topology; so every returned pool is on an
\* online node that is not cordoned.
NodeUnusedBy(request, item) ==
    \/ \A q \in DOMAIN pools : replicas[request.uuid][q] > 0 => pools[q].node # pools[item].node
    \/ \E mv \in SeqToSet(request.move_repl) : mv.node = pools[item].node /\ mv.pool # item

PoolTopologyMatches(request, item) ==
    \A t \in SeqToSet(request.topology) : \A pt \in SeqToSet(t.pool) :
      \A k \in DOMAIN pt.inclusion :
        \E labels \in SeqToSet(pools[item].labels) :
          /\ k \in DOMAIN labels
          /\ pt.inclusion[k] = "" \/ pt.inclusion[k] = labels[k]

PassesAllEight(item) ==
    /\ ~nodes[pools[item].node].cordoned
    /\ nodes[pools[item].node].status = "Online"
    /\ req.allowed_nodes # {} => pools[item].node \in req.allowed_nodes
    /\ NodeUnusedBy(req, item)
    /\ pools[item].status \notin {"Faulted", "Unknown"}
    /\ pools[item].capacity > req.size
    /\ IF req.thin THEN pools[item].capacity - pools[item].used > 16
                   ELSE pools[item].capacity - pools[item].used > req.size
    /\ PoolTopologyMatches(req, item)

FilterIsConjunction ==
    phase = "filtered" =>
      /\ result = SelectSeq(list, PassesAllEight)
      /\ \A item \in SeqToSet(result) :
           nodes[pools[item].node].status = "Online" /\ ~nodes[pools[item].node].cordoned

\* Witness of C4: a filtered list that kept some items of the input and
\* dropped others, one of them only for its capacity.
FilterIsConjunctionWitness ==
    /\ phase = "filtered"
    /\ result # <<>>
    /\ Len(result) < Len(list)
    /\ \E item \in SeqToSet(list) :
         /\ pools[item].capacity = req.size
         /\ ~nodes[pools[item].node].cordoned
         /\ nodes[pools[item].node].status = "Online"
         /\ NodeUnusedBy(req, item)
         /\ req.allowed_nodes # {} => pools[item].node \in req.allowed_nodes
         /\ pools[item].status = "Online"
         /\ req.thin /\ pools[item].capacity - pools[item].used > 16
         /\ PoolTopologyMatches(req, item)

\* ------------------------------------------------------------------------
\* Scenario S1: three online nodes with one usable pool each, and successive
\* add-replica requests for volume v1
\* ------------------------------------------------------------------------
S1PoolIds == {"a1", "b1", "c1"}

S1Init ==
    /\ NonSchedIdle
    /\ nodes = [n \in NodeIds |-> [status |-> "Online", cordoned |-> FALSE, labels |-> Some(EmptyMap)]]
    /\ \E status \in [S1PoolIds -> {"Online", "Degraded"}], capacity \in [S1PoolIds -> {40, 64}] :
         pools = [p \in S1PoolIds |->
                    [node |-> NodeOfPool(p), status |-> status[p], capacity |-> capacity[p],
                     used |-> 0, committed |-> 0, labels |-> None]]
    /\ \E size \in {8, 24}, thin \in BOOLEAN :
         volumes = [v \in VolumeIds |-> [size |-> size, thin |-> thin]]
    /\ replicas = [v \in VolumeIds |-> [p \in S1PoolIds |-> 0]]
    /\ moving = [v \in VolumeIds |-> None]
    /\ phase = "idle"
    /\ req = NoRequest
    /\ list = <<>>
    /\ result = <<>>
    /\ outcome = NoOutcome
    /\ commit = None

S1Next ==
    \/ AddReplica("v1")
    \/ AddReplicaNotEnough("v1", None)

S1Spec == S1Init /\ [][S1Next]_vars

\* The nodes of the candidates an add-replica request for v1 gets now.
S1CandidateNodes ==
    {pools[p].node :
       p \in SeqToSet(DefaultBasePolicy_filter(AddReplicaRequest("v1", None), PoolItems))}

\* C3: in scenario S1 a request for v1 is offered exactly the nodes without
\* a replica of v1, a placement removes exactly the chosen node from the
\* candidate nodes, and after three placements the list is empty and the
\* caller reports NotEnough::OfPools{have: 0, need: 1}.
S1CandidatesShrink ==
    /\ [](S1CandidateNodes = NodeIds \ volume_data_nodes("v1"))
    /\ [](outcome.kind = "ok" =>
            /\ {pools[p].node : p \in SeqToSet(result)} \cap volume_data_nodes("v1")
                 = {pools[Unwrap(outcome.chosen)].node}
            /\ outcome.have = Len(result))
    /\ [][outcome'.kind = "ok" =>
            /\ pools[Unwrap(outcome'.chosen)].node \in S1CandidateNodes
            /\ S1CandidateNodes' = S1CandidateNodes \ {pools[Unwrap(outcome'.chosen)].node}]_vars
    /\ [](outcome.kind = "NotEnough::OfPools" =>
            /\ outcome.have = 0 /\ outcome.need = 1
            /\ result = <<>>
            /\ volume_data_nodes("v1") = NodeIds)
    /\ [][volume_data_nodes("v1") = NodeIds => outcome' = NotEnoughOfPools]_vars

\* Witness of C3: the fourth request, after three placements, was refused.
S1CandidatesShrinkWitness ==
    /\ outcome = NotEnoughOfPools
    /\ \A p \in S1PoolIds : replicas["v1"][p] = 1
    /\ req.uuid = "v1"

\* ------------------------------------------------------------------------
\* NodeFilters::topology (for nodes)
\* ------------------------------------------------------------------------
\* does_node_qualify_inclusion_labels where one matching key is enough.
does_node_qualify_inclusion_labels_any(vol_inc_labels, node_labels) ==
    \/ DOMAIN vol_inc_labels = {}
    \/ \E vol_inc_key \in DOMAIN vol_inc_labels :
         /\ vol_inc_key \in DOMAIN node_labels
         /\ node_labels[vol_inc_key] = vol_inc_labels[vol_inc_key]

\* The loop leaves with inc_match = false at the first key that the node
\* does not carry or carries with another value.
does_node_qualify_inclusion_labels(vol_inc_labels, node_labels) ==
    \A vol_inc_key \in DOMAIN vol_inc_labels :
      /\ vol_inc_key \in DOMAIN node_labels
      /\ node_labels[vol_inc_key] = vol_inc_labels[vol_inc_key]

\* What the filter does for an item: it returns true or false, or it panics.
Todo == "todo!"
FromBool(b) == IF b THEN "true" ELSE "false"

\* NodeFilters::topology without the check for a key common to inclusion and
\* exclusion.
NodeFilters_topology_no_common_key(request, item) ==
    IF ~IsSome(request.topology) THEN "true"
    ELSE IF ~IsSome(Unwrap(request.topology).node) THEN "true"
    ELSE LET node_topology == Unwrap(Unwrap(request.topology).node)
         IN  IF node_topology.kind = "Explicit" THEN Todo
             ELSE IF DOMAIN node_topology.inclusion = {} /\ DOMAIN node_topology.exclusion = {}
             THEN "true"
             ELSE IF IsSome(nodes[item].labels)
             THEN FromBool(does_node_qualify_inclusion_labels(node_topology.inclusion,
                                                              Unwrap(nodes[item].labels)))
             ELSE "false"

NodeFilters_topology(request, item) ==
    IF ~IsSome(request.topology) THEN "true"
    ELSE IF ~IsSome(Unwrap(request.topology).node) THEN "true"
    ELSE LET node_topology == Unwrap(Unwrap(request.topology).node)
         IN  IF node_topology.kind = "Explicit" THEN Todo
             ELSE IF \E key \in DOMAIN node_topology.inclusion :
                       key \in DOMAIN node_topology.exclusion
             THEN "false"
             ELSE IF DOMAIN node_topology.inclusion = {} /\ DOMAIN node_topology.exclusion = {}
             THEN "true"
             ELSE IF IsSome(nodes[item].labels)
             THEN FromBool(does_node_qualify_inclusion_labels(node_topology.inclusion,
                                                              Unwrap(nodes[item].labels)))
             ELSE "false"

\* NodeTopology::Labelled, NodeTopology::Explicit and PoolTopology::Labelled
Labelled(inclusion, exclusion) ==
    [kind |-> "Labelled", inclusion |-> inclusion, exclusion |-> exclusion, allowed_nodes |-> {}]

Explicit(allowed_nodes) ==
    [kind |-> "Explicit", inclusion |-> EmptyMap, exclusion |-> EmptyMap,
     allowed_nodes |-> allowed_nodes]

PoolLabelled(inclusion, exclusion) == [inclusion |-> inclusion, exclusion |-> exclusion]

\* The topologies of a request: none, no node and pool topology, the same
\* labelled constraint on nodes and pools, or explicit nodes.
Topologies ==
    {None, Some([node |-> None, pool |-> None])}
      \cup {Some([node |-> Some(Labelled(inc, exc)), pool |-> Some(PoolLabelled(inc, exc))]) :
              inc \in LabelMaps(LabelKeys, LabelValues \cup {Wildcard}),
              exc \in LabelMaps(LabelKeys, LabelValues)}
      \cup {Some([node |-> Some(Explicit(a)), pool |-> None]) : a \in {{}, {"A"}}}

PlainNode(labels) == [status |-> "Online", cordoned |-> FALSE, labels |-> labels]

PlainPool(p, labels) ==
    [node |-> NodeOfPool(p), status |-> "Online", capacity |-> 64, used |-> 0, committed |-> 0,
     labels |-> labels]

\* Either the labels of the nodes or the labels of the pools are drawn.
TopoInit ==
    /\ NonSchedIdle
    /\ \/ /\ \E la \in LabelMaps(LabelKeys, LabelValues), lb \in LabelMaps(LabelKeys, LabelValues),
                lc \in {None, Some(EmptyMap)} :
               nodes = [n \in NodeIds |->
                          IF n = "A" THEN PlainNode(Some(la))
                          ELSE IF n = "B" THEN PlainNode(Some(lb)) ELSE PlainNode(lc)]
          /\ pools = [p \in PlacePoolIds |-> PlainPool(p, None)]
       \/ /\ nodes = [n \in NodeIds |-> PlainNode(Some(EmptyMap))]
          /\ \E la \in {None} \cup {Some(m) : m \in LabelMaps(LabelKeys, LabelValues)},
                lb \in {None} \cup {Some(m) : m \in LabelMaps(LabelKeys, LabelValues)} :
               pools = [p \in PlacePoolIds |->
                          IF p = "a1" THEN PlainPool(p, la)
                          ELSE IF p = "b1" THEN PlainPool(p, lb) ELSE PlainPool(p, None)]
    /\ volumes = [v \in VolumeIds |-> [size |-> 8, thin |-> TRUE]]
    /\ replicas = [v \in VolumeIds |-> [p \in PlacePoolIds |-> 0]]
    /\ moving = [v \in VolumeIds |-> None]
    /\ phase = "request"
    /\ \E topology \in Topologies :
         req = [uuid |-> "v1", size |-> 8, thin |-> TRUE, allowed_nodes |-> {},
                move_repl |-> None, topology |-> topology]
    /\ list = <<>>
    /\ result = <<>>
    /\ outcome = NoOutcome
    /\ commit = None

\* GetSuitableNodes: every node of the registry is an item.
NodeItems == SetToSeq(DOMAIN nodes)

\* The node topology filter applied to the nodes of the registry: retain
\* calls it for every item, and a panic ends the scheduling task.
FilterNodesTopology ==
    LET topology(v) == NodeFilters_topology(req, v) = "true"
    IN  /\ phase = "request"
        /\ phase' = "filtered_nodes"
        /\ list' = NodeItems
        /\ IF \E v \in SeqToSet(NodeItems) : NodeFilters_topology(req, v) = Todo
           THEN /\ result' = <<>>
                /\ outcome' = [kind |-> "panic", have |-> 0, need |-> 0, chosen |-> None]
           ELSE /\ result' = SelectSeq(NodeItems, topology)
                /\ outcome' = [kind |-> "ok", have |-> Len(result'), need |-> 1, chosen |-> None]
        /\ UNCHANGED <<nodes, pools, volumes, replicas, moving, req, commit>>
        /\ UNCHANGED nonSchedVars

\* The pool topology filter applied to the pools of the registry.
FilterPoolsTopology ==
    LET topology(v) == PoolBaseFilters_topology(req, v)
    IN  /\ phase = "request"
        /\ phase' = "filtered_pools"
        /\ list' = PoolItems
        /\ result' = SelectSeq(PoolItems, topology)
        /\ outcome' = [kind |-> "ok", have |-> Len(result'), need |-> 1, chosen |-> None]
        /\ UNCHANGED <<nodes, pools, volumes, replicas, moving, req, commit>>
        /\ UNCHANGED nonSchedVars

TopoNext ==
    \/ FilterNodesTopology
    \/ FilterPoolsTopology

TopoSpec == TopoInit /\ [][TopoNext]_vars

\* The label maps of the request's node topology, when it is Labelled.
IsLabelledRequest ==
    /\ IsSome(req.topology)
    /\ IsSome(Unwrap(req.topology).node)
    /\ Unwrap(Unwrap(req.topology).node).kind = "Labelled"

IsExplicitRequest ==
    /\ IsSome(req.topology)
    /\ IsSome(Unwrap(req.topology).node)
    /\ Unwrap(Unwrap(req.topology).node).kind = "Explicit"

ReqInclusion == Unwrap(Unwrap(req.topology).node).inclusion
ReqExclusion == Unwrap(Unwrap(req.topology).node).exclusion

\* The labels a candidate carries: none when it has no labels.
CarriedLabels(labels) == IF IsSome(labels) THEN Unwrap(labels) ELSE EmptyMap

\* Inclusion with the empty value as a wildcard.
MatchesInclusion(inc, labels) ==
    \A k \in DOMAIN inc :
      /\ k \in DOMAIN CarriedLabels(labels)
      /\ inc[k] = "" \/ CarriedLabels(labels)[k] = inc[k]

\* No excluded key/value pair is carried.
MatchesExclusion(exc, labels) ==
    \A k \in DOMAIN exc :
      ~(k \in DOMAIN CarriedLabels(labels) /\ CarriedLabels(labels)[k] = exc[k])

\* C6: for node topology and for pool topology alike, a candidate passes a
\* Labelled constraint with non-empty inclusion (and no exclusion) if and
\* only if it carries every inclusion key with the required value, the
\* empty required value matching any value.
InclusionWithWildcard ==
    (IsLabelledRequest /\ DOMAIN ReqInclusion # {} /\ DOMAIN ReqExclusion = {}) =>
      /\ phase = "filtered_nodes" =>
           SeqToSet(result) = {n \in DOMAIN nodes : MatchesInclusion(ReqInclusion, nodes[n].labels)}
      /\ phase = "filtered_pools" =>
           SeqToSet(result) = {p \in DOMAIN pools : MatchesInclusion(ReqInclusion, pools[p].labels)}

\* C7: for node topology and for pool topology, no candidate that carries an
\* excluded key with the excluded value is accepted.
ExclusionEnforced ==
    IsLabelledRequest =>
      /\ phase = "filtered_nodes" =>
           \A n \in SeqToSet(result) :
             MatchesExclusion(ReqExclusion, nodes[n].labels)
               /\ MatchesInclusion(ReqInclusion, nodes[n].labels)
      /\ phase = "filtered_pools" =>
           \A p \in SeqToSet(result) :
             MatchesExclusion(ReqExclusion, pools[p].labels)
               /\ MatchesInclusion(ReqInclusion, pools[p].labels)

\* C8: when a key is in both the inclusion and the exclusion map of the
\* request's Labelled node topology, NodeFilters::topology is false for
\* every node and the candidate list is empty.
CommonKeyRejectsAll ==
    (IsLabelledRequest /\ DOMAIN ReqInclusion \cap DOMAIN ReqExclusion # {}) =>
      /\ \A n \in DOMAIN nodes : NodeFilters_topology(req, n) = "false"
      /\ phase = "filtered_nodes" => result = <<>> /\ outcome.kind = "ok" /\ outcome.have = 0

\* Witness of C8: the nodes were filtered with a constraint that has a common
\* key, which a node satisfies as to its inclusion and its exclusion labels.
CommonKeyRejectsAllWitness ==
    /\ phase = "filtered_nodes"
    /\ IsLabelledRequest
    /\ DOMAIN ReqInclusion \cap DOMAIN ReqExclusion # {}
    /\ \E n \in DOMAIN nodes :
         /\ IsSome(nodes[n].labels)
         /\ does_node_qualify_inclusion_labels(ReqInclusion, Unwrap(nodes[n].labels))
         /\ MatchesExclusion(ReqExclusion, nodes[n].labels)
    /\ result = <<>>

\* The nodes that pass the node topology filter of a request with the
\* Labelled topology (inc, exc).
NodeCandidates(inc, exc) ==
    {n \in DOMAIN nodes :
       NodeFilters_topology([req EXCEPT !.topology =
                               Some([node |-> Some(Labelled(inc, exc)), pool |-> None])], n)
         = "true"}

WithLabel(m, k, v) == [x \in DOMAIN m \cup {k} |-> IF x = k THEN v ELSE m[x]]

\* C9: one more inclusion label, or one more exclusion label, yields a
\* subset of the node candidates of the original request, and a request
\* with no topology or with empty inclusion and exclusion keeps every node.
TopologyMonotone ==
    /\ IsLabelledRequest =>
         /\ \A k \in LabelKeys \ DOMAIN ReqInclusion : \A v \in LabelValues \cup {Wildcard} :
              NodeCandidates(WithLabel(ReqInclusion, k, v), ReqExclusion)
                \subseteq NodeCandidates(ReqInclusion, ReqExclusion)
         /\ \A k \in LabelKeys \ DOMAIN ReqExclusion : \A v \in LabelValues \cup {Wildcard} :
              NodeCandidates(ReqInclusion, WithLabel(ReqExclusion, k, v))
                \subseteq NodeCandidates(ReqInclusion, ReqExclusion)
         /\ phase = "filtered_nodes" =>
              SeqToSet(result) = NodeCandidates(ReqInclusion, ReqExclusion)
    /\ (\/ ~IsSome(req.topology)
        \/ IsSome(req.topology) /\ ~IsSome(Unwrap(req.topology).node)
        \/ IsLabelledRequest /\ DOMAIN ReqInclusion = {} /\ DOMAIN ReqExclusion = {}) =>
         /\ \A n \in DOMAIN nodes : NodeFilters_topology(req, n) = "true"
         /\ phase = "filtered_nodes" => result = list

\* Witness of C9: the nodes were filtered with one inclusion label that kept
\* two of them, and a further inclusion label would keep only one of the two.
TopologyMonotoneWitness ==
    /\ phase = "filtered_nodes"
    /\ IsLabelledRequest
    /\ Cardinality(DOMAIN ReqInclusion) = 1
    /\ Len(result) = 2
    /\ \E k \in LabelKeys \ DOMAIN ReqInclusion : \E v \in LabelValues :
         Cardinality(NodeCandidates(WithLabel(ReqInclusion, k, v), ReqExclusion)) = 1

\* C10: a request whose node topology is Explicit ends in an error that
\* reports the unsupported feature: the filter neither lets the candidates
\* pass nor panics.
ExplicitIsAnError ==
    (phase = "filtered_nodes" /\ IsExplicitRequest) =>
      outcome.kind \notin {"ok", "panic"}

\* ========================================================================
\* Registry states (controller/states.rs): ResourceStates behind an RwLock
\* ========================================================================
SchedIdle ==
    /\ nodes = EmptyMap
    /\ pools = EmptyMap
    /\ volumes = EmptyMap
    /\ replicas = EmptyMap
    /\ moving = EmptyMap
    /\ phase = "idle"
    /\ req = NoRequest
    /\ list = <<>>
    /\ result = <<>>
    /\ outcome = NoOutcome
    /\ commit = None

Kinds == {"pools", "replicas", "nexuses", "snapshots"}

\* The ids and the states of the resources of each kind.
StateIds(k) ==
    CASE k = "pools" -> {"p1", "p2"}
      [] k = "replicas" -> {"r1", "r2"}
      [] k = "nexuses" -> {"n1"}
      [] OTHER -> {"s1"}

StateVals(k) == IF k \in {"pools", "nexuses"} THEN {"Online", "Degraded"} ELSE {"Online"}

Entry(i, v) == [id |-> i, val |-> v]

\* ResourceMap::clear
ResourceMap_clear(map) == EmptyMap

\* ResourceMap::insert: the entry replaces the one of the same id, if any.
ResourceMap_insert(map, e) ==
    [i \in DOMAIN map \cup {e.id} |-> IF i = e.id THEN e.val ELSE map[i]]

\* ResourceMap::remove
ResourceMap_remove(map, id) == [i \in DOMAIN map \ {id} |-> map[i]]

\* ResourceMap::populate: every element of the vector is inserted, in order.
RECURSIVE ResourceMap_populate(_, _)
ResourceMap_populate(map, values) ==
    IF values = <<>> THEN map
    ELSE ResourceMap_populate(ResourceMap_insert(map, Head(values)), Tail(values))

\* ResourceStates::update_replicas and its siblings: clear, then populate.
update_replicas(s, values) ==
    [s EXCEPT !.replicas = ResourceMap_populate(ResourceMap_clear(@), values)]

update_pools_keep(s, values) == [s EXCEPT !.pools = ResourceMap_populate(@, values)]
update_pools(s, values) ==
    [s EXCEPT !.pools = ResourceMap_populate(ResourceMap_clear(@), values)]

update_nexuses(s, values) ==
    [s EXCEPT !.nexuses = ResourceMap_populate(ResourceMap_clear(@), values)]

update_snapshots(s, values) ==
    [s EXCEPT !.snapshots = ResourceMap_populate(ResourceMap_clear(@), values)]

update_kind(k, s, values) ==
    CASE k = "replicas" -> update_replicas(s, values)
      [] k = "pools" -> update_pools(s, values)
      [] k = "nexuses" -> update_nexuses(s, values)
      [] OTHER -> update_snapshots(s, values)

\* ResourceStates::update_pool and its siblings: Either::Insert | Either::Remove.
Insert(e) == [tag |-> "Insert", id |-> e.id, val |-> e.val]
Remove(i) == [tag |-> "Remove", id |-> i]

update_replica(s, state) ==
    IF state.tag = "Insert"
    THEN [s EXCEPT !.replicas = ResourceMap_insert(@, Entry(state.id, state.val))]
    ELSE [s EXCEPT !.replicas = ResourceMap_remove(@, state.id)]

update_pool_only(s, state) ==
    IF state.tag = "Insert"
    THEN [s EXCEPT !.pools = ResourceMap_insert(ResourceMap_clear(@), Entry(state.id, state.val))]
    ELSE [s EXCEPT !.pools = ResourceMap_remove(@, state.id)]
update_pool(s, state) ==
    IF state.tag = "Insert"
    THEN [s EXCEPT !.pools = ResourceMap_insert(@, Entry(state.id, state.val))]
    ELSE [s EXCEPT !.pools = ResourceMap_remove(@, state.id)]

update_nexus(s, state) ==
    IF state.tag = "Insert"
    THEN [s EXCEPT !.nexuses = ResourceMap_insert(@, Entry(state.id, state.val))]
    ELSE [s EXCEPT !.nexuses = ResourceMap_remove(@, state.id)]

update_snapshot(s, state) ==
    IF state.tag = "Insert"
    THEN [s EXCEPT !.snapshots = ResourceMap_insert(@, Entry(state.id, state.val))]
    ELSE [s EXCEPT !.snapshots = ResourceMap_remove(@, state.id)]

update_one(k, s, state) ==
    CASE k = "replicas" -> update_replica(s, state)
      [] k = "pools" -> update_pool(s, state)
      [] k = "nexuses" -> update_nexus(s, state)
      [] OTHER -> update_snapshot(s, state)

\* The reports of the io-engines handed to ResourceStates::update.
Reports ==
    {[pools |-> <<Entry("p1", "Online")>>,
      replicas |-> <<Entry("r1", "Online"), Entry("r2", "Online")>>,
      nexuses |-> <<Entry("n1", "Online")>>,
      snapshots |-> <<>>],
     [pools |-> <<Entry("p2", "Online"), Entry("p1", "Degraded")>>,
      replicas |-> <<Entry("r2", "Online")>>,
      nexuses |-> <<>>,
      snapshots |-> <<Entry("s1", "Online")>>],
     [pools |-> <<>>, replicas |-> <<>>, nexuses |-> <<>>, snapshots |-> <<>>]}

Deltas ==
    {[name |-> "delta", kind |-> k, state |-> Insert(Entry(i, v))] :
        k \in Kinds, i \in UNION {StateIds(j) : j \in Kinds}, v \in {"Online", "Degraded"}}
    \cup {[name |-> "delta", kind |-> k, state |-> Remove(i)] :
        k \in Kinds, i \in UNION {StateIds(j) : j \in Kinds}}

WriteOps ==
    {[name |-> "update", report |-> r] : r \in Reports}
    \cup {d \in Deltas : d.state.id \in StateIds(d.kind)
                         /\ (d.state.tag = "Insert" => d.state.val \in StateVals(d.kind))}

\* ResourceStates::update works through the four maps in this order; each map is
\* cleared and then populated.
UpdateOrder == <<"replicas", "pools", "nexuses", "snapshots">>

\* RwLock::read and RwLock::write of ResourceStatesLocked: a read lock is shared
\* among readers, the write lock (needed for every &mut self method) is exclusive.
RwLock_read_unlocked(lock) == TRUE
RwLock_read(lock) == ~lock.writer

RwLock_write(lock) == ~lock.writer /\ lock.readers = {}

AllIdle == SchedIdle /\ NonSchedIdle

RegInit == AllIdle

\* A task takes the write lock to apply op.
WriteLock(op) ==
    /\ writer.pc = "idle"
    /\ RwLock_write(rwlock)
    /\ rwlock' = [rwlock EXCEPT !.writer = TRUE]
    /\ writer' = [writer EXCEPT !.pc = "busy", !.step = 0, !.op = op, !.before = states]
    /\ UNCHANGED <<states, reader, notRegistryVars>>

\* ResourceStates::update, one clear or populate at a time.
UpdateStep ==
    /\ writer.pc = "busy"
    /\ writer.op.name = "update"
    /\ LET k == UpdateOrder[(writer.step \div 2) + 1]
       IN  states' = IF writer.step % 2 = 0
                     THEN [states EXCEPT ![k] = ResourceMap_clear(@)]
                     ELSE [states EXCEPT
                             ![k] = update_kind(k, [states EXCEPT ![k] = writer.before[k]],
                                                writer.op.report[k])[k]]
    /\ writer' = [writer EXCEPT !.step = @ + 1,
                                !.pc = IF writer.step + 1 = 2 * Len(UpdateOrder)
                                       THEN "done" ELSE "busy"]
    /\ UNCHANGED <<rwlock, reader, notRegistryVars>>

\* ResourceStates::update_pool / update_replica / update_nexus / update_snapshot.
DeltaStep ==
    /\ writer.pc = "busy"
    /\ writer.op.name = "delta"
    /\ states' = update_one(writer.op.kind, states, writer.op.state)
    /\ writer' = [writer EXCEPT !.pc = "done", !.step = 1]
    /\ UNCHANGED <<rwlock, reader, notRegistryVars>>

\* The write guard is dropped; the last bulk update and its result are remembered.
WriteUnlock ==
    /\ writer.pc = "done"
    /\ rwlock' = [rwlock EXCEPT !.writer = FALSE]
    /\ writer' = [IdleWriter EXCEPT
                    !.last = IF writer.op.name = "update"
                             THEN Some([report |-> writer.op.report, result |-> states])
                             ELSE writer.last]
    /\ UNCHANGED <<states, reader, notRegistryVars>>

\* A reader takes the read lock,
ReadLock(r) ==
    /\ reader[r].pc = "idle"
    /\ RwLock_read(rwlock)
    /\ rwlock' = [rwlock EXCEPT !.readers = @ \cup {r}]
    /\ reader' = [reader EXCEPT ![r] = [pc |-> "reading", seen |-> EmptyMap]]
    /\ UNCHANGED <<states, writer, notRegistryVars>>

\* reads one of the maps it has not read yet (pool_states_cloned, ...),
ReadStates(r, k) ==
    /\ reader[r].pc = "reading"
    /\ k \notin DOMAIN reader[r].seen
    /\ reader' = [reader EXCEPT ![r].seen =
                    [j \in DOMAIN @ \cup {k} |-> IF j = k THEN states[k] ELSE @[j]]]
    /\ UNCHANGED <<states, rwlock, writer, notRegistryVars>>

\* and drops the read guard.
ReadUnlock(r) ==
    /\ reader[r].pc = "reading"
    /\ rwlock' = [rwlock EXCEPT !.readers = @ \ {r}]
    /\ reader' = [reader EXCEPT ![r] = IdleReader]
    /\ UNCHANGED <<states, writer, notRegistryVars>>

RegNext ==
    \/ \E op \in WriteOps : WriteLock(op)
    \/ UpdateStep
    \/ DeltaStep
    \/ WriteUnlock
    \/ \E r \in Readers : ReadLock(r)
    \/ \E r \in Readers, k \in Kinds : ReadStates(r, k)
    \/ \E r \in Readers : ReadUnlock(r)

RegSpec == RegInit /\ [][RegNext]_vars

\* The map a vector of entries stands for: one entry per id, the last one given.
ReportMap(values) ==
    [i \in {values[j].id : j \in 1..Len(values)} |->
        values[CHOOSE j \in 1..Len(values) :
                 /\ values[j].id = i
                 /\ \A l \in (j + 1)..Len(values) : values[l].id # i].val]

ReportMaps(report) == [k \in Kinds |-> ReportMap(report[k])]

\* The collections before the write in progress, and the ones after it.
OldStates == IF writer.pc = "idle" THEN states ELSE writer.before
NewStates ==
    IF writer.pc # "idle" /\ writer.op.name = "update"
    THEN ReportMaps(writer.op.report)
    ELSE states

\* C11: what a reader has read of the registry states under its read lock is
\* either the collections as they were before the bulk update or the
\* collections the update leaves: never some maps of the one and some of the
\* other, and never a map that was cleared and is not populated yet.
ReaderSeesOldOrNew ==
    \A r \in Readers :
        \/ \A k \in DOMAIN reader[r].seen : reader[r].seen[k] = OldStates[k]
        \/ \A k \in DOMAIN reader[r].seen : reader[r].seen[k] = NewStates[k]

\* A reader has read the four maps after a bulk update that changed them.
ReaderSeesOldOrNewWitness ==
    \E r \in Readers :
        /\ DOMAIN reader[r].seen = Kinds
        /\ IsSome(writer.last)
        /\ \A k \in {"pools", "replicas"} : reader[r].seen[k] # EmptyMap

\* C12: when update returns, each of the four maps holds exactly the entries
\* of its input, whatever it held before; and an update with the inputs of the
\* previous update leaves the snapshot the previous update left.
UpdateReplacesAll ==
    (writer.pc = "done" /\ writer.op.name = "update") =>
        /\ \A k \in Kinds : states[k] = ReportMap(writer.op.report[k])
        /\ (IsSome(writer.last) /\ Unwrap(writer.last).report = writer.op.report)
              => states = Unwrap(writer.last).result

\* An update has returned that repeats the inputs of the previous update, and an
\* entry the pools held before it (put there by a delta) is not among them.
UpdateReplacesAllWitness ==
    /\ writer.pc = "done"
    /\ writer.op.name = "update"
    /\ IsSome(writer.last)
    /\ Unwrap(writer.last).report = writer.op.report
    /\ DOMAIN writer.before.pools \ DOMAIN ReportMap(writer.op.report.pools) # {}
    /\ writer.op.report.pools # <<>>

\* C13: a delta is point-wise.  Insert(e) makes e's id present with e's value,
\* Remove(id) makes the id absent and changes nothing when it was absent; every
\* other entry of the map and the three other maps are as before; and the delta
\* is applied while no reader holds the lock.
DeltaIsPointwise ==
    [][(writer.pc = "busy" /\ writer.op.name = "delta" /\ writer'.pc = "done") =>
         LET k == writer.op.kind
             st == writer.op.state
         IN  /\ rwlock.writer /\ rwlock.readers = {}
             /\ \A r \in Readers : reader[r].pc = "idle"
             /\ IF st.tag = "Insert"
                THEN st.id \in DOMAIN states'[k] /\ states'[k][st.id] = st.val
                ELSE st.id \notin DOMAIN states'[k]
             /\ DOMAIN states'[k] \ {st.id} = DOMAIN states[k] \ {st.id}
             /\ \A i \in DOMAIN states[k] \ {st.id} : states'[k][i] = states[k][i]
             /\ \A j \in Kinds \ {k} : states'[j] = states[j]
             /\ (st.tag = "Remove" /\ st.id \notin DOMAIN states[k]) => states' = states
      ]_vars

\* A pool state has been inserted next to another pool's state, with replicas
\* in the registry.
DeltaIsPointwiseWitness ==
    /\ writer.pc = "done"
    /\ writer.op.name = "delta"
    /\ writer.op.kind = "pools"
    /\ writer.op.state.tag = "Insert"
    /\ DOMAIN states.pools = {"p1", "p2"}
    /\ states.pools[writer.op.state.id] # states.pools[CHOOSE i \in {"p1", "p2"} : i # writer.op.state.id]
    /\ states.replicas # EmptyMap

\* ========================================================================
\* Pool service (pool/service.rs): operations on a pool and its guard
\* ========================================================================
\* Service::locked_pool: the resourced PoolSpec of the pool, if any exists.
locked_pool(pool) == IF pool_specs[pool].present THEN Some(pool) ELSE None

\* operation_guard_wait returns once no operation holds the guard.
operation_guard_free(pool) == pool_specs[pool].guard = None

GuardInit == AllIdle

\* Service::destroy_pool when the pool has a spec (pool_opt, Some(pool)): the
\* operation is suspended in operation_guard_wait.
DestroyPoolLookup(o, p) ==
    /\ ops[o].pc = "idle"
    /\ IsSome(locked_pool(p))
    /\ ops' = [ops EXCEPT ![o] = [name |-> "destroy_pool", pool |-> p, pc |-> "lookup",
                                  rsc |-> locked_pool(p)]]
    /\ UNCHANGED <<pool_specs, notGuardVars>>

\* Service::destroy_pool when the pool has no spec (pool_opt, None => None):
\* there is no guard to wait for and the operation goes on to destroy.
DestroyPoolUnguarded(o, p) ==
    /\ ops[o].pc = "idle"
    /\ locked_pool(p) = None
    /\ ops' = [ops EXCEPT ![o] = [name |-> "destroy_pool", pool |-> p, pc |-> "executing",
                                  rsc |-> locked_pool(p)]]
    /\ UNCHANGED <<pool_specs, notGuardVars>>

\* Service::create_pool (OperationGuardArc::create): the spec is registered
\* if it is not there, and the operation waits for its guard.
CreatePoolLookup(o, p) ==
    /\ ops[o].pc = "idle"
    /\ pool_specs' = [pool_specs EXCEPT ![p].present = TRUE]
    /\ ops' = [ops EXCEPT ![o] = [name |-> "create_pool", pool |-> p, pc |-> "lookup",
                                  rsc |-> Some(p)]]
    /\ UNCHANGED notGuardVars

\* Service::pool_opt, Some(pool) => operation_guard_wait: the operation goes
\* on once the guard is free, and holds it.
GuardWait(o) ==
    /\ ops[o].pc = "lookup"
    /\ IsSome(ops[o].rsc)
    /\ operation_guard_free(Unwrap(ops[o].rsc))
    /\ pool_specs' = [pool_specs EXCEPT ![Unwrap(ops[o].rsc)].guard = Some(o)]
    /\ ops' = [ops EXCEPT ![o].pc = "executing"]
    /\ UNCHANGED notGuardVars

\* The operation returns; its guard, if it holds one, is dropped.  The spec
\* stays registered.
OperationReturns(o) ==
    /\ ops[o].pc = "executing"
    /\ pool_specs' = [p \in GuardPoolIds |->
                        IF pool_specs[p].guard = Some(o)
                        THEN [pool_specs[p] EXCEPT !.guard = None]
                        ELSE pool_specs[p]]
    /\ ops' = [ops EXCEPT ![o] = IdleOp]
    /\ UNCHANGED notGuardVars

GuardNext ==
    \/ \E o \in Ops, p \in GuardPoolIds : DestroyPoolLookup(o, p)
    \/ \E o \in Ops, p \in GuardPoolIds : DestroyPoolUnguarded(o, p)
    \/ \E o \in Ops, p \in GuardPoolIds : CreatePoolLookup(o, p)
    \/ \E o \in Ops : GuardWait(o)
    \/ \E o \in Ops : OperationReturns(o)

GuardSpec == GuardInit /\ [][GuardNext]_vars

\* C14: an operation on a pool never executes while another operation holds
\* the guard of the same pool.
GuardOrdersPoolOperations ==
    \A o \in Ops :
        ops[o].pc = "executing" =>
            \A other \in Ops \ {o} : pool_specs[ops[o].pool].guard # Some(other)

\* ========================================================================
\* DiskPool operator (k8s/operators/src/pool): the reconciler of one pool CR
\* ========================================================================
\* OperatorContext::interval (seconds), the --interval argument.
interval == 5

\* The number of passes on one resource version after which no further pass
\* is taken on it.
RetryBound == 2

\* DiskPoolStatus and its constructors.
Status(c, p) == [cr_state |-> c, pool_status |-> p]
DiskPoolStatus_default == Status("Creating", None)
DiskPoolStatus_mark_unknown == Status("Created", Some("Unknown"))
DiskPoolStatus_terminating_when_unknown == Status("Terminating", Some("Unknown"))
DiskPoolStatus_not_found(status) ==
    IF IsSome(status) THEN Status(Unwrap(status).cr_state, None) ELSE DiskPoolStatus_default
DiskPoolStatus_from(pool) ==
    Status("Created", IF IsSome(pool.state) THEN pool.state ELSE Some("Unknown"))
DiskPoolStatus_terminating(pool) ==
    Status("Terminating", IF IsSome(pool.state) THEN pool.state ELSE Some("Unknown"))

\* Action and Result<Action, Error>.
AwaitChange == [kind |-> "await_change", after |-> 0, error |-> <<>>]
Requeue(secs) == [kind |-> "requeue", after |-> secs, error |-> <<>>]
Err(e) == [kind |-> "error", after |-> 0, error |-> e]
Panic(e) == [kind |-> "panic", after |-> 0, error |-> e]

\* The events the operator notifies: k8s_notify(action, reason, message, type_).
Event(a, r, m, t) == [action |-> a, reason |-> r, message |-> m, type_ |-> t]
EvMissingDevice ==
    Event("Create or import", "Missing", "The block device(s) can not be found", "Warn")
EvFailure ==
    Event("Create or Import Failure", "Failure", "Unable to create or import pool", "Critical")
EvNodeMissing ==
    Event("Create or Import Failure", "Failure", "Unable to find io-engine node", "Critical")
EvCreated == Event("Create or Import", "Created", "Created or imported pool", "Normal")
EvDestroyed == Event("Destroyed pool", "Destroy", "The pool has been destroyed", "Normal")
EvAlreadyDestroyed ==
    Event("Destroyed pool", "Destroy", "The pool was already destroyed", "Normal")
EvOnline == Event("Online pool", "Online", "Pool online and ready to roll!", "Normal")
EvNotFound ==
    Event("Notfound", "Check",
          "The pool has been deleted through an external API request", "Warning")
EvUnreachable ==
    Event("Unreachable", "Check",
          "Could not reach Rest API service. Please check control plane health", "Warning")
EvMissing == Event("Missing", "Check", "The pool information is not available", "Warning")

\* ResourceContext::k8s_notify: the event is posted unless its message is among
\* the messages of event_info, where the message is recorded.
k8s_notify_always(info, e) == <<e>>
k8s_notify(info, e) == IF e.message \in info THEN <<>> ELSE <<e>>

\* The answers of the REST API of the control plane.  A pool that exists is
\* returned by get_node_pool, a pool that does not is answered 404; creating a
\* pool that exists is answered 422; and every call may fail otherwise.
Answer(c) == [code |-> c, pool |-> None]
GetAnswers ==
    (IF IsSome(cp) THEN {[code |-> "200", pool |-> cp]} ELSE {Answer("404")})
    \cup {Answer("503"), Answer("408"), Answer("500"), Answer("request")}
PutAnswers ==
    (IF IsSome(cp) THEN {Answer("422")} ELSE {Answer("201")})
    \cup {Answer("404"), Answer("500"), Answer("request")}
DelAnswers ==
    (IF IsSome(cp) THEN {Answer("200")} ELSE {Answer("404")})
    \cup {Answer("500"), Answer("request")}
BlockDeviceAnswers == {"200 with the disk", "200 without the disk", "404", "500", "request"}

\* The answers of the API server to a status patch.
PatchAnswers == {"ok", "error"}

\* The DiskPool object as the watcher hands it to reconcile.
CrObject ==
    [disks |-> cr.disks, status |-> cr.status, deleting |-> cr.deleting,
     finalizer |-> cr.finalizer]

\* OperatorContext::upsert: the context stored under the name of the resource
\* after the call, which is also the context returned.
upsert(inv, resource) ==
    IF IsSome(inv) /\ Unwrap(inv).inner = resource
    THEN IF IsSome(resource.status) /\ Unwrap(resource.status).cr_state = "Created"
         THEN Unwrap(inv)
         ELSE [Unwrap(inv) EXCEPT !.num_retries = @ + 1]
    ELSE [inner |-> resource, num_retries |-> 0]

\* Whether upsert stores a new context (with an empty event_info).
upsert_inserts(inv, resource) == ~(IsSome(inv) /\ Unwrap(inv).inner = resource)

DiskSets == {<<>>, <<"/dev/sda">>}

OperatorInit ==
    /\ SchedIdle
    /\ UpsertIdle
    /\ RegistryIdle
    /\ GuardsIdle
    /\ MigrateIdle
    /\ SortIdle
    /\ OrderIdle
    /\ CallIdle
    /\ \E d \in DiskSets :
         cr = [exists |-> TRUE, disks |-> d, status |-> None, created |-> FALSE, deleting |-> FALSE,
               finalizer |-> FALSE]
    /\ inventory = None
    /\ event_info = {}
    /\ cp \in {None, Some([state |-> Some("Online")])}
    /\ pass = NoPass

\* What a step of the pass adds to its record: the calls it made with their
\* answers, the events it posted, the statuses it patched.
Call(n, a) == [name |-> n, answer |-> a]
Dsp == Unwrap(pass.dsp)
Ends(res) == [pc |-> "idle", result |-> Some(res)]
Goes(pc) == [pc |-> pc, result |-> None]

Step(calls, events, patched, next) ==
    [pass EXCEPT !.calls = @ \o calls,
                 !.events = @ \o events,
                 !.patched = @ \o patched,
                 !.pc = next.pc,
                 !.result = next.result]

\* ResourceContext::patch_status, accepted by the API server.
\* The resource with the status patched; created keeps whether its status has
\* ever been Created.
WithStatus(status) ==
    [cr EXCEPT !.status = Some(status),
               !.created = @ \/ status.cr_state = "Created"]
Patched(status) == cr' = WithStatus(status)

\* reconcile, up to the finalizer: the resource is upserted into the inventory.
Reconcile ==
    /\ pass.pc = "idle"
    /\ cr.exists
    /\ pass.result # Some(Panic(<<"unwrap">>)) /\ pass.result # Some(Panic(<<"disks()[0]">>))
    /\ LET ctx == upsert(inventory, CrObject)
       IN  /\ ctx.num_retries <= RetryBound
           /\ inventory' = Some(ctx)
           /\ event_info' = IF upsert_inserts(inventory, CrObject) THEN {} ELSE event_info
           /\ pass' = [NoPass EXCEPT !.pc = "finalizer", !.dsp = Some(ctx.inner),
                                     !.calls = <<Call("upsert", "")>>]
    /\ UNCHANGED <<cr, cp, notOperatorVars>>

\* ResourceContext::finalizer.  kube's finalizer puts the finalizer on a
\* resource that has none (the patch may fail), calls put_finalizer for a
\* resource that has it, and starts the cleanup of a resource that has it and
\* is being deleted.
Finalizer ==
    /\ pass.pc = "finalizer"
    /\ IF Dsp.finalizer /\ Dsp.deleting
       THEN /\ pass' = Step(<<Call("finalizer", "Cleanup")>>, <<>>, <<>>, Goes("cleanup"))
            /\ UNCHANGED cr
       ELSE IF Dsp.finalizer
       THEN /\ pass' = Step(<<Call("finalizer", "Apply")>>, <<>>, <<>>, Goes("dispatch"))
            /\ UNCHANGED cr
       ELSE IF Dsp.deleting
       THEN /\ pass' = Step(<<Call("finalizer", "")>>, <<>>, <<>>, Goes("dispatch"))
            /\ UNCHANGED cr
       ELSE \E pa \in PatchAnswers :
            /\ pass' = Step(<<Call("finalizer", pa)>>, <<>>, <<>>, Goes("dispatch"))
            /\ cr' = IF pa = "ok" THEN [cr EXCEPT !.finalizer = TRUE] ELSE cr
    /\ UNCHANGED <<inventory, event_info, cp, notOperatorVars>>

\* finalizer::Event::Cleanup, where the Terminating patch is awaited with `?`:
\* what follows the answer to the patch.
cleanup_after_patch_ignored(pa) == "delete_pool"
cleanup_after_patch(pa) == IF pa = "ok" THEN "delete_pool" ELSE "dispatch"

\* finalizer::Event::Cleanup: the error of get_node_pool after which the
\* finalizer is deleted without deleting the pool.
cleanup_not_found_any(code) == code # "200"
cleanup_not_found(code) == code = "404"

\* finalizer::Event::Cleanup: get_node_pool, then the Terminating patch.
Cleanup ==
    /\ pass.pc = "cleanup"
    /\ \E a \in GetAnswers :
         LET get == Call("get_node_pool", a.code)
         IN  IF a.code = "200"
             THEN IF Dsp.status = None
                  THEN /\ pass' = [Step(<<get>>, <<>>, <<>>, Ends(Panic(<<"unwrap">>)))
                                     EXCEPT !.pool = a.pool]
                       /\ UNCHANGED cr
                  ELSE IF Unwrap(Dsp.status).cr_state # "Terminating"
                  THEN \E pa \in PatchAnswers :
                         /\ cr' = IF pa = "ok"
                                  THEN [cr EXCEPT !.status =
                                            Some(DiskPoolStatus_terminating(Unwrap(a.pool)))]
                                  ELSE cr
                         /\ pass' = [Step(<<get, Call("patch_status", pa)>>, <<>>,
                                          IF pa = "ok"
                                          THEN <<DiskPoolStatus_terminating(Unwrap(a.pool))>>
                                          ELSE <<>>,
                                          Goes(cleanup_after_patch(pa)))
                                       EXCEPT !.pool = a.pool,
                                              !.cleanup = IF cleanup_after_patch(pa) = "delete_pool"
                                                          THEN None
                                                          ELSE Some(Err(<<"patch_status", pa>>))]
                  ELSE /\ pass' = [Step(<<get>>, <<>>, <<>>, Goes("delete_pool"))
                                     EXCEPT !.pool = a.pool]
                       /\ UNCHANGED cr
             ELSE IF cleanup_not_found(a.code)
             THEN /\ pass' = Step(<<get>>, <<>>, <<>>, Goes("remove"))
                  /\ UNCHANGED cr
             ELSE /\ pass' = [Step(<<get>>, <<>>, <<>>, Goes("dispatch"))
                                EXCEPT !.cleanup = Some(Err(<<"get_node_pool", a.code>>))]
                  /\ UNCHANGED cr
    /\ UNCHANGED <<inventory, event_info, cp, notOperatorVars>>

\* ResourceContext::delete_pool: the answers of del_node_pool it returns Ok for.
delete_pool_ok_200(code) == code = "200"
delete_pool_ok(code) == code \in {"200", "404"}

\* ResourceContext::delete_pool, called by delete_finalizer.
DeletePool ==
    /\ pass.pc = "delete_pool"
    /\ \E a \in DelAnswers :
         LET del == Call("del_node_pool", a.code)
             event == IF a.code = "200" THEN EvDestroyed ELSE EvAlreadyDestroyed
         IN  IF delete_pool_ok(a.code)
             THEN /\ cp' = IF a.code = "200" THEN None ELSE cp
                  /\ pass' = Step(<<del>>, k8s_notify(event_info, event), <<>>, Goes("remove"))
                  /\ event_info' = event_info \cup {event.message}
             ELSE /\ cp' = IF a.code = "200" THEN None ELSE cp
                  /\ pass' = [Step(<<del>>, <<>>, <<>>, Goes("dispatch"))
                                EXCEPT !.cleanup = Some(Err(<<"del_node_pool", a.code>>))]
                  /\ UNCHANGED event_info
    /\ UNCHANGED <<cr, inventory, notOperatorVars>>

\* ResourceContext::delete_finalizer, after delete_pool: what it returns for
\* the entry that ctx.remove took out of the inventory.
delete_finalizer(removed) == IF removed = None THEN Requeue(10) ELSE AwaitChange

\* ResourceContext::delete_finalizer, after delete_pool: the context is removed
\* from the inventory; the cleanup has succeeded and kube takes the finalizer
\* off the resource (the patch may fail), which lets the API server delete it.
DeleteFinalizer ==
    /\ pass.pc = "remove"
    /\ inventory' = None
    /\ \E pa \in PatchAnswers :
         /\ pass' = [Step(<<Call("remove", IF IsSome(inventory) THEN "removed" ELSE "none"),
                            Call("delete_finalizer", delete_finalizer(inventory).kind),
                            Call("finalizer", pa)>>, <<>>, <<>>, Goes("dispatch"))
                       EXCEPT !.cleanup = Some(delete_finalizer(inventory))]
         /\ cr' = IF pa = "ok"
                  THEN [cr EXCEPT !.finalizer = FALSE, !.exists = ~cr.deleting]
                  ELSE cr
    /\ UNCHANGED <<event_info, cp, notOperatorVars>>

\* reconcile, the match on the status of the resource: the handler it calls.
reconcile_match_creating(status) ==
    IF status = None THEN "init_cr" ELSE "create_or_import"
reconcile_match(status) ==
    IF status = None THEN "init_cr"
    ELSE IF Unwrap(status).cr_state = "Creating" THEN "create_or_import"
    ELSE "pool_check"

\* OperatorContext::inventory_contains: whether the inventory holds a context
\* under the name of the resource.
inventory_contains_always(inv) == TRUE
inventory_contains(inv) == inv # None

\* reconcile, after the finalizer: nothing more when the inventory does not
\* hold the resource, else the match on the status.
Dispatch ==
    /\ pass.pc = "dispatch"
    /\ pass' = IF ~inventory_contains(inventory)
               THEN Step(<<Call("inventory_contains", "false")>>, <<>>, <<>>, Ends(AwaitChange))
               ELSE Step(<<Call("inventory_contains", "true")>>, <<>>, <<>>,
                         Goes(reconcile_match(Dsp.status)))
    /\ UNCHANGED <<cr, inventory, event_info, cp, notOperatorVars>>

\* A status patch followed by the action `then`; the error of the patch is
\* returned when the patch fails (patch_status(..).await?).
PatchThen(calls, events, status, then) ==
    \E pa \in PatchAnswers :
        IF pa = "ok"
        THEN /\ Patched(status)
             /\ pass' = Step(calls \o <<Call("patch_status", pa)>>, events, <<status>>,
                             Ends(then))
        ELSE /\ UNCHANGED cr
             /\ pass' = Step(calls \o <<Call("patch_status", pa)>>, events, <<>>,
                             Ends(Err(<<"Kube">>)))

\* ResourceContext::init_cr
init_cr ==
    /\ pass.pc = "init_cr"
    /\ PatchThen(<<>>, <<>>, DiskPoolStatus_default, AwaitChange)
    /\ UNCHANGED <<inventory, event_info, cp, notOperatorVars>>

\* ResourceContext::mark_unknown, mark_terminating_when_unknown,
\* mark_pool_not_found and is_missing.
mark_unknown_creating(calls, events) ==
    PatchThen(calls, events, DiskPoolStatus_default, Requeue(interval))
mark_unknown(calls, events) ==
    PatchThen(calls, events, DiskPoolStatus_mark_unknown, Requeue(interval))

mark_terminating_when_unknown(calls, events) ==
    PatchThen(calls, events, DiskPoolStatus_terminating_when_unknown, Requeue(interval))

mark_pool_not_found_default(calls, events) ==
    PatchThen(calls, events, DiskPoolStatus_default, Requeue(30))
mark_pool_not_found(calls, events) ==
    PatchThen(calls, events, DiskPoolStatus_not_found(Dsp.status), Requeue(30))

is_missing(calls, events) ==
    PatchThen(calls, events, DiskPoolStatus_default, AwaitChange)

\* ResourceContext::create_or_import, up to the answer of put_node_pool.
create_or_import ==
    /\ pass.pc = "create_or_import"
    /\ \E a \in PutAnswers :
         LET put == Call("put_node_pool", a.code)
         IN  IF a.code = "201"
             THEN /\ cp' = Some([state |-> Some("Online")])
                  /\ pass' = Step(<<put>>, k8s_notify(event_info, EvCreated), <<>>,
                                  Goes("pool_created"))
                  /\ event_info' = event_info \cup {EvCreated.message}
                  /\ UNCHANGED cr
             ELSE IF a.code = "422"
             THEN /\ mark_unknown(<<put>>, <<>>)
                  /\ UNCHANGED <<cp, event_info>>
             ELSE /\ pass' = [Step(<<put>>, <<>>, <<>>, Goes("block_devices"))
                                EXCEPT !.error = <<"put_node_pool", a.code>>]
                  /\ UNCHANGED <<cr, cp, event_info>>
    /\ UNCHANGED <<inventory, notOperatorVars>>

\* ResourceContext::create_or_import after put_node_pool failed: the failure is
\* attributed with get_node_block_devices and the error of put_node_pool is
\* returned.  self.spec.disks()[0] panics when the CR declares no disk.
create_or_import_failed ==
    /\ pass.pc = "block_devices"
    /\ \E b \in BlockDeviceAnswers :
         LET bd == Call("get_node_block_devices", b)
             event == IF b = "200 without the disk" THEN EvMissingDevice
                      ELSE IF b = "404" THEN EvNodeMissing
                      ELSE EvFailure
         IN  IF b \in {"200 with the disk", "200 without the disk"} /\ Dsp.disks = <<>>
             THEN /\ pass' = Step(<<bd>>, <<>>, <<>>, Ends(Panic(<<"disks()[0]">>)))
                  /\ UNCHANGED event_info
             ELSE /\ pass' = Step(<<bd>>, k8s_notify(event_info, event), <<>>,
                                  Ends(Err(pass.error)))
                  /\ event_info' = event_info \cup {event.message}
    /\ UNCHANGED <<cr, inventory, cp, notOperatorVars>>

\* The status pool_created patches for a pool that has a state.
pool_created_status_unknown(pool) == DiskPoolStatus_mark_unknown
pool_created_status(pool) == DiskPoolStatus_from(pool)

\* ResourceContext::pool_created
pool_created ==
    /\ pass.pc = "pool_created"
    /\ \E a \in GetAnswers :
         LET get == Call("get_node_pool", a.code)
         IN  IF a.code = "200"
             THEN IF IsSome(Unwrap(a.pool).state)
                  THEN \E pa \in PatchAnswers :
                         IF pa = "ok"
                         THEN /\ Patched(pool_created_status(Unwrap(a.pool)))
                              /\ pass' = [Step(<<get, Call("patch_status", pa)>>,
                                               k8s_notify(event_info, EvOnline),
                                               <<pool_created_status(Unwrap(a.pool))>>,
                                               Ends(AwaitChange))
                                            EXCEPT !.pool = a.pool]
                              /\ event_info' = event_info \cup {EvOnline.message}
                         ELSE /\ pass' = [Step(<<get, Call("patch_status", pa)>>, <<>>, <<>>,
                                               Ends(Err(<<"Kube">>)))
                                            EXCEPT !.pool = a.pool]
                              /\ UNCHANGED <<cr, event_info>>
                  ELSE /\ pass' = [Step(<<get>>, <<>>, <<>>, Ends(Requeue(3)))
                                     EXCEPT !.pool = a.pool]
                       /\ UNCHANGED <<cr, event_info>>
             ELSE /\ pass' = Step(<<get>>, <<>>, <<>>, Ends(Err(<<"get_node_pool", a.code>>)))
                  /\ UNCHANGED <<cr, event_info>>
    /\ UNCHANGED <<inventory, cp, notOperatorVars>>

\* The response codes pool_check takes for an unreachable REST service.
pool_check_unreachable_503(code) == code = "503"
pool_check_unreachable(code) == code \in {"503", "408"}

\* ResourceContext::pool_check, up to the answer of get_node_pool.
pool_check ==
    /\ pass.pc = "pool_check"
    /\ \E a \in GetAnswers :
         LET get == Call("get_node_pool", a.code)
         IN  IF a.code = "200"
             THEN /\ pass' = [Step(<<get>>, <<>>, <<>>, Goes("set_status_or_unknown"))
                                EXCEPT !.pool = a.pool]
                  /\ UNCHANGED <<cr, event_info>>
             ELSE IF a.code = "404"
             THEN IF Dsp.deleting
                  THEN /\ pass' = Step(<<get>>, <<>>, <<>>, Ends(AwaitChange))
                       /\ UNCHANGED <<cr, event_info>>
                  ELSE /\ mark_pool_not_found(<<get>>, k8s_notify(event_info, EvNotFound))
                       /\ event_info' = event_info \cup {EvNotFound.message}
             ELSE IF pool_check_unreachable(a.code)
             THEN /\ mark_pool_not_found(<<get>>, k8s_notify(event_info, EvUnreachable))
                  /\ event_info' = event_info \cup {EvUnreachable.message}
             ELSE IF a.code = "request"
             THEN /\ mark_pool_not_found(<<get>>, <<>>)
                  /\ UNCHANGED event_info
             ELSE /\ is_missing(<<get>>, k8s_notify(event_info, EvMissing))
                  /\ event_info' = event_info \cup {EvMissing.message}
    /\ UNCHANGED <<inventory, cp, notOperatorVars>>

\* The status set_status_or_unknown derives from a pool that has a state.
new_status(pool, deleting) ==
    [DiskPoolStatus_from(pool) EXCEPT !.cr_state = IF deleting THEN "Terminating" ELSE @]

\* ResourceContext::set_status_or_unknown, which patches a status that differs
\* (a failure of that patch is ignored) and always reschedules.
status_differs_always(status, new) == TRUE
status_differs(status, new) == status # new

set_status_or_unknown ==
    /\ pass.pc = "set_status_or_unknown"
    /\ LET pool == Unwrap(pass.pool)
           new == new_status(pool, Dsp.deleting)
       IN  IF IsSome(pool.state)
           THEN IF IsSome(Dsp.status) /\ status_differs(Unwrap(Dsp.status), new)
                THEN \E pa \in PatchAnswers :
                       /\ cr' = IF pa = "ok" THEN WithStatus(new) ELSE cr
                       /\ pass' = Step(<<Call("patch_status", pa)>>, <<>>,
                                       IF pa = "ok" THEN <<new>> ELSE <<>>,
                                       Ends(Requeue(interval)))
                ELSE /\ UNCHANGED cr
                     /\ pass' = Step(<<>>, <<>>, <<>>, Ends(Requeue(interval)))
           ELSE IF Dsp.deleting
           THEN mark_terminating_when_unknown(<<>>, <<>>)
           ELSE mark_unknown(<<>>, <<>>)
    /\ UNCHANGED <<inventory, event_info, cp, notOperatorVars>>

\* BACKOFF_PERIOD of main.rs (seconds).
BACKOFF_PERIOD == 20

\* The errors error_policy distinguishes: the variants of Error in error.rs
\* and the variants its match names, with the timeout these carry.
ErrorKinds ==
    {"Kube", "Request", "Response", "InvalidCRField", "Generic", "CrdMergeError",
     "CrdFieldMissing", "Duplicate", "SpecError", "ReconcileError"}
ErrorTimeouts == {3, 7}
Error(kind, timeout) == [kind |-> kind, timeout |-> timeout]

\* impl From<clients::tower::Error> for Error and From<kube::Error> for Error,
\* applied to the error a pass returned.
Error_from(e) ==
    IF e = <<"Kube">> THEN Error("Kube", 0)
    ELSE IF e[2] = "request" THEN Error("Request", 0)
    ELSE Error("Response", 0)

\* error_policy
error_policy_backoff(error) == Requeue(BACKOFF_PERIOD)
error_policy(error) ==
    IF error.kind \in {"Duplicate", "SpecError"} THEN Requeue(error.timeout)
    ELSE IF error.kind = "ReconcileError" THEN AwaitChange
    ELSE Requeue(BACKOFF_PERIOD)

\* The controller hands the error of a pass to error_policy.
ErrorPolicy ==
    /\ pass.pc = "idle"
    /\ pass.result # None
    /\ Unwrap(pass.result).kind = "error"
    /\ pass.policy = None
    /\ pass' = [pass EXCEPT !.policy = Some(error_policy(Error_from(Unwrap(pass.result).error)))]
    /\ UNCHANGED <<cr, inventory, event_info, cp, notOperatorVars>>

\* The user deletes the CR: the API server sets the deletion timestamp of a CR
\* that has a finalizer and deletes a CR that has none.
DeleteCr ==
    /\ cr.exists
    /\ ~cr.deleting
    /\ cr' = IF cr.finalizer THEN [cr EXCEPT !.deleting = TRUE] ELSE [cr EXCEPT !.exists = FALSE]
    /\ UNCHANGED <<inventory, event_info, cp, pass, notOperatorVars>>

\* The pool is destroyed through an external request to the control plane.
ExternalDelete ==
    /\ IsSome(cp)
    /\ cp' = None
    /\ UNCHANGED <<cr, inventory, event_info, pass, notOperatorVars>>

\* The state the control plane has of the pool changes; it has none while the
\* node of the pool is not reachable.
PoolStateChanges ==
    /\ IsSome(cp)
    /\ \E st \in {None, Some("Online"), Some("Degraded")} :
         /\ st # Unwrap(cp).state
         /\ cp' = Some([state |-> st])
    /\ UNCHANGED <<cr, inventory, event_info, pass, notOperatorVars>>

OperatorNext ==
    \/ Reconcile
    \/ Finalizer
    \/ Cleanup
    \/ DeletePool
    \/ DeleteFinalizer
    \/ Dispatch
    \/ init_cr
    \/ create_or_import
    \/ create_or_import_failed
    \/ pool_created
    \/ pool_check
    \/ set_status_or_unknown
    \/ ErrorPolicy
    \/ DeleteCr
    \/ ExternalDelete
    \/ PoolStateChanges

OperatorSpec == OperatorInit /\ [][OperatorNext]_vars

\* ------------------------------------------------------------------------
\* What a finished pass has done
\* ------------------------------------------------------------------------
PassDone == pass.pc = "idle" /\ IsSome(pass.result)
PassResult == Unwrap(pass.result)
CallNames(calls) == {calls[i].name : i \in DOMAIN calls}
Answered(calls, n, a) == \E i \in DOMAIN calls : calls[i] = Call(n, a)

\* The pass found the resource in the inventory and went on to the match.
Dispatched == Answered(pass.calls, "inventory_contains", "true")

\* The calls of the handler the match selected.
Handled ==
    LET at == CHOOSE i \in DOMAIN pass.calls : pass.calls[i].name = "inventory_contains"
    IN  SubSeq(pass.calls, at + 1, Len(pass.calls))
PatchAccepted == Answered(Handled, "patch_status", "ok")
LastPatched == pass.patched[Len(pass.patched)]
Declared == Unwrap(Dsp.status)

\* C15: the handler of a pass follows the declared status.  A CR without
\* status only gets the status patch to the default (Creating) and the pass
\* awaits a change (a rejected patch gives the Kube error); put_node_pool is
\* called only for a CR declared Creating; a CR declared Created or Terminating
\* is checked with get_node_pool and put_node_pool is not called.
ReconcileDispatch ==
    PassDone =>
        /\ "put_node_pool" \in CallNames(pass.calls) =>
               Dsp.status # None /\ Declared.cr_state = "Creating"
        /\ (Dispatched /\ Dsp.status = None) =>
               /\ Len(Handled) = 1
               /\ Handled[1].name = "patch_status"
               /\ pass.events = <<>>
               /\ IF PatchAccepted
                  THEN /\ pass.patched = <<Status("Creating", None)>>
                       /\ cr.status = Some(Status("Creating", None))
                       /\ PassResult = AwaitChange
                  ELSE /\ pass.patched = <<>>
                       /\ PassResult = Err(<<"Kube">>)
        /\ (Dispatched /\ Dsp.status # None /\ Declared.cr_state \in {"Created", "Terminating"}) =>
               /\ Handled[1].name = "get_node_pool"
               /\ "put_node_pool" \notin CallNames(pass.calls)

ReconcileDispatchWitness ==
    /\ PassDone
    /\ Dispatched
    /\ Dsp.status # None
    /\ Declared.cr_state = "Terminating"
    /\ Handled[1].name = "get_node_pool"

\* C16: a pass whose put_node_pool succeeded was taken on a CR declared
\* Creating, has notified the Normal event Created and has fetched the pool
\* next; when the pool came back with a state and the status patch was
\* accepted, the status of the CR is Created with the state of the pool, the
\* event Online is notified and the pass awaits a change.
CreateThenCreated ==
    (PassDone /\ Answered(pass.calls, "put_node_pool", "201")) =>
        /\ Declared.cr_state = "Creating"
        /\ Handled[1].name = "put_node_pool"
        /\ Handled[2].name = "get_node_pool"
        /\ EvCreated.type_ = "Normal" /\ EvCreated.reason = "Created"
        /\ EvCreated.message \in event_info
        /\ (Answered(Handled, "get_node_pool", "200") /\ PatchAccepted) =>
               /\ IsSome(Unwrap(pass.pool).state)
               /\ LastPatched = Status("Created", Unwrap(pass.pool).state)
               /\ cr.status = Some(LastPatched)
               /\ EvOnline.message \in event_info
               /\ PassResult = AwaitChange
        /\ (Answered(Handled, "get_node_pool", "200") /\ IsSome(Unwrap(pass.pool).state)) =>
               "patch_status" \in CallNames(Handled)

\* A pool that did not exist is created and the CR ends Created and Online,
\* both events posted.
CreateThenCreatedWitness ==
    /\ PassDone
    /\ Answered(pass.calls, "put_node_pool", "201")
    /\ Dsp.status = Some(Status("Creating", None))
    /\ cr.status = Some(Status("Created", Some("Online")))
    /\ pass.events = <<EvCreated, EvOnline>>
    /\ PassResult = AwaitChange

\* C17: a put_node_pool answered 422 is not an error: once the status patch
\* is accepted the CR is Created with the pool state Unknown, nothing else was
\* called, no event was posted and the pass requeues after `interval`; and
\* put_node_pool succeeds only while the control plane has no such pool, which
\* it has afterwards, so that a second application creates nothing.
CreateIsIdempotent ==
    /\ [](( PassDone /\ Answered(pass.calls, "put_node_pool", "422") /\ PatchAccepted) =>
            /\ Len(Handled) = 2
            /\ Handled[1].name = "put_node_pool"
            /\ LastPatched = Status("Created", Some("Unknown"))
            /\ cr.status = Some(LastPatched)
            /\ pass.events = <<>>
            /\ PassResult = Requeue(interval))
    /\ [][(/\ pass.pc = "create_or_import"
           /\ Answered(pass'.calls, "put_node_pool", "201")) => (cp = None /\ cp' # None)]_vars
    /\ [][(pass.pc = "create_or_import" /\ cp # None) =>
              ~Answered(pass'.calls, "put_node_pool", "201")]_vars

\* The second pass on one resource version finds the pool that exists.
CreateIsIdempotentWitness ==
    /\ PassDone
    /\ Answered(pass.calls, "put_node_pool", "422")
    /\ IsSome(inventory) /\ Unwrap(inventory).num_retries >= 1
    /\ cr.status = Some(Status("Created", Some("Unknown")))
    /\ PassResult = Requeue(interval)

\* C18: a pass whose put_node_pool failed with something else than 422
\* returns the error of put_node_pool, whatever get_node_block_devices
\* answers, and has not patched the status of the CR declared Creating.
PutErrorIsReturned ==
    (PassDone /\ \E c \in {"404", "500", "request"} :
                     Answered(pass.calls, "put_node_pool", c)) =>
        /\ pass.error[1] = "put_node_pool"
        /\ PassResult = Err(pass.error)
        /\ "patch_status" \notin CallNames(Handled)
        /\ Declared.cr_state = "Creating"

PoolCheckNotFound ==
    (PassDone /\ Dispatched /\ Handled[1] = Call("get_node_pool", "404")
              /\ Declared.cr_state \in {"Created", "Terminating"}) =>
        IF Dsp.deleting
        THEN /\ PassResult = AwaitChange
             /\ Len(Handled) = 1
             /\ pass.events = <<>>
        ELSE /\ EvNotFound.type_ = "Warning"
             /\ EvNotFound.message \in event_info
             /\ pass.events \in {<<>>, <<EvNotFound>>}
             /\ Len(Handled) = 2 /\ Handled[2].name = "patch_status"
             /\ PatchAccepted =>
                   /\ pass.patched = <<Status(Declared.cr_state, None)>>
                   /\ cr.status = Some(Status(Declared.cr_state, None))
                   /\ PassResult = Requeue(30)

\* The pool of a Created and Online CR was deleted by an external request.
PoolCheckNotFoundWitness ==
    /\ PassDone /\ Dispatched /\ Handled[1] = Call("get_node_pool", "404")
    /\ ~Dsp.deleting
    /\ Dsp.status = Some(Status("Created", Some("Online")))
    /\ pass.events = <<EvNotFound>>
    /\ cr.status = Some(Status("Created", None))
    /\ PassResult = Requeue(30)

\* C21: after get_node_pool answered 503 or 408 to pool_check the Warning
\* event Unreachable is notified, after a transport error no event is; in
\* both cases the status patch is sent and, once accepted, the status keeps
\* its cr_state without pool state and the pass requeues after 30 seconds, so
\* that no error reaches the error policy.
PoolCheckUnreachable ==
    (PassDone /\ Dispatched /\ Dsp.status # None
              /\ Declared.cr_state \in {"Created", "Terminating"}
              /\ Handled[1].name = "get_node_pool"
              /\ Handled[1].answer \in {"503", "408", "request"}) =>
        /\ Len(Handled) = 2 /\ Handled[2].name = "patch_status"
        /\ IF Handled[1].answer = "request"
           THEN pass.events = <<>>
           ELSE /\ EvUnreachable.type_ = "Warning" /\ EvUnreachable.action = "Unreachable"
                /\ EvUnreachable.message \in event_info
                /\ pass.events \in {<<>>, <<EvUnreachable>>}
        /\ PatchAccepted =>
              /\ LastPatched = Status(Declared.cr_state, None)
              /\ cr.status = Some(LastPatched)
              /\ PassResult = Requeue(30)
        /\ PassResult.kind = "error" => ~PatchAccepted

\* The REST service timed out on the check of an Online pool.
PoolCheckUnreachableWitness ==
    /\ PassDone /\ Dispatched
    /\ Handled = <<Call("get_node_pool", "408"), Call("patch_status", "ok")>>
    /\ Dsp.status = Some(Status("Created", Some("Online")))
    /\ pass.events = <<EvUnreachable>>
    /\ cr.status = Some(Status("Created", None))
    /\ PassResult = Requeue(30)

\* The calls of the finalizer of the pass, which precede the match.
Finalized ==
    IF \E i \in DOMAIN pass.calls : pass.calls[i].name = "inventory_contains"
    THEN SubSeq(pass.calls, 1, Len(pass.calls) - Len(Handled) - 1)
    ELSE pass.calls
CallAt(calls, n) == CHOOSE i \in DOMAIN calls : calls[i].name = n

\* C22: in a cleanup, del_node_pool is called only after get_node_pool
\* returned the pool and, unless the CR was declared Terminating already, right
\* after the accepted patch of the status Terminating with the state of that
\* pool; after a rejected patch it is not called; and after del_node_pool
\* answered 404, as after 200, the inventory entry is removed next.
CleanupOrder ==
    LET calls == Finalized
    IN  /\ "del_node_pool" \in CallNames(calls) =>
            LET d == CallAt(calls, "del_node_pool")
            IN  /\ Dsp.status # None
                /\ IF Declared.cr_state = "Terminating"
                   THEN calls[d - 1] = Call("get_node_pool", "200")
                   ELSE /\ calls[d - 1] = Call("patch_status", "ok")
                        /\ calls[d - 2] = Call("get_node_pool", "200")
                        /\ pass.patched[1].cr_state = "Terminating"
                        /\ (Finalized = pass.calls /\ IsSome(Unwrap(pass.pool).state)) =>
                               pass.patched[1].pool_status = Unwrap(pass.pool).state
                /\ (calls[d].answer \in {"200", "404"} /\ Len(calls) > d) =>
                       calls[d + 1].name = "remove"
                /\ (calls[d].answer \in {"200", "404"} /\ Len(calls) = d) =>
                       pass.pc = "remove"
        /\ Answered(calls, "patch_status", "error") => "del_node_pool" \notin CallNames(calls)

\* The pool was gone when del_node_pool was called after the Terminating
\* patch, and the cleanup went on to remove the inventory entry.
CleanupOrderWitness ==
    /\ PassDone
    /\ Dsp.status = Some(Status("Created", Some("Online")))
    /\ Answered(Finalized, "del_node_pool", "404")
    /\ Answered(Finalized, "remove", "removed")
    /\ pass.patched = <<Status("Terminating", Some("Online"))>>

CrStateAdvances ==
    [][(/\ cr.exists /\ cr'.exists
        /\ cr.status # None
        /\ Unwrap(cr.status).cr_state \in {"Created", "Terminating"})
       => (cr'.status # None /\ Unwrap(cr'.status).cr_state # "Creating")]_vars

\* The events posted by a step of the pass.
NewEvents ==
    IF pass'.calls # pass.calls /\ Len(pass'.calls) > Len(pass.calls)
    THEN SubSeq(pass'.events, Len(pass.events) + 1, Len(pass'.events))
    ELSE <<>>

\* C25: an event is posted only if its message was not notified on the
\* context before, its message is notified afterwards, and the notified
\* messages are kept until upsert stores a new context: on one context no
\* message is posted twice, in the same pass or in a later one.
EventsAreDeduplicated ==
    [][/\ \A i \in DOMAIN NewEvents :
             /\ NewEvents[i].message \notin event_info
             /\ NewEvents[i].message \in event_info'
             /\ \A j \in DOMAIN NewEvents : NewEvents[j].message = NewEvents[i].message => j = i
       /\ ~(event_info \subseteq event_info') =>
             (pass.pc = "idle" /\ upsert_inserts(inventory, CrObject))]_vars

\* A later pass on the same context meets the failure again and posts nothing.
EventsAreDeduplicatedWitness ==
    /\ PassDone /\ Dispatched
    /\ Answered(Handled, "get_node_block_devices", "404")
    /\ IsSome(inventory) /\ Unwrap(inventory).num_retries >= 1
    /\ EvNodeMissing.message \in event_info
    /\ pass.events = <<>>

\* C26: error_policy requeues after the timeout of the error for Duplicate
\* and SpecError, awaits a change for ReconcileError and requeues after 20
\* seconds for every other error; the errors a pass returns (Kube, Request,
\* Response) all get the 20 seconds.
ErrorPolicyMaps ==
    /\ \A k \in ErrorKinds, t \in ErrorTimeouts :
           error_policy(Error(k, t)) =
               IF k \in {"Duplicate", "SpecError"} THEN [kind |-> "requeue", after |-> t, error |-> <<>>]
               ELSE IF k = "ReconcileError" THEN [kind |-> "await_change", after |-> 0, error |-> <<>>]
               ELSE [kind |-> "requeue", after |-> 20, error |-> <<>>]
    /\ pass.policy # None =>
           /\ PassDone /\ PassResult.kind = "error"
           /\ Unwrap(pass.policy) = [kind |-> "requeue", after |-> 20, error |-> <<>>]

\* The error of put_node_pool was handed to error_policy.
ErrorPolicyMapsWitness ==
    /\ PassDone
    /\ PassResult = Err(<<"put_node_pool", "500">>)
    /\ pass.policy = Some(Requeue(20))

\* ---------------------------------------------------------------------------
\* Startup migration of the MayastorPool CRs (main.rs, migrate_and_clean_msps)
\* ---------------------------------------------------------------------------

MspNames == {"msp-1", "msp-2", "msp-3"}

\* MayastorPoolSpec: the node and the disks of the pool.
MayastorPoolSpec == [node : {"node-1", "node-2"}, disks : {<<"/dev/sda">>, <<"/dev/sda", "/dev/sdb">>}]

\* DiskPoolSpec::new(node, disks, HashMap::new()): the same node and disks,
\* and no topology labels.
DiskPoolSpec_new(node, disks) == [node |-> node, disks |-> disks, topology |-> EmptyMap]

DiskPoolSpecs == {DiskPoolSpec_new(s.node, s.disks) : s \in MayastorPoolSpec}

\* The MayastorPools in the order the list call returns them.
MspOrder == <<"msp-1", "msp-2", "msp-3">>

list_msps(names) == SelectSeq([i \in 1..Len(MspOrder) |-> Some(MspOrder[i])], LAMBDA o : Unwrap(o) \in names)

\* The number of times the operator process is started.
MaxRuns == 2

MigrateInit ==
    /\ SchedIdle
    /\ UpsertIdle
    /\ RegistryIdle
    /\ GuardsIdle
    /\ OperatorIdle
    /\ SortIdle
    /\ OrderIdle
    /\ CallIdle
    /\ \E names \in SUBSET MspNames : msps \in [names -> MayastorPoolSpec]
    /\ \E names \in SUBSET {"msp-1"} : dsps \in [names -> DiskPoolSpecs]
    /\ mig = [NoMigration EXCEPT !.declared = DOMAIN msps]

Migrated(calls, res) == [mig EXCEPT !.pc = "done", !.calls = @ \o calls, !.result = res]

\* check_crd, then list: Ok(false) skips the migration, an error of either
\* call is returned as Error::Generic, and Ok(msps) starts the loop.
migrate_and_clean_msps ==
    /\ mig.pc = "idle"
    /\ \E crd \in {"true", "false", "error"} :
         CASE crd = "false" -> mig' = Migrated(<<Call("check_crd", crd)>>, "ok")
           [] crd = "error" -> mig' = Migrated(<<Call("check_crd", crd)>>, "Generic")
           [] crd = "true"  ->
                \E l \in {"ok", "error"} :
                    LET calls == <<Call("check_crd", crd), Call("list", l)>>
                    IN  IF l = "error" THEN mig' = Migrated(calls, "Generic")
                        ELSE IF msps = EmptyMap THEN mig' = Migrated(calls, "ok")
                        ELSE mig' = [mig EXCEPT !.pc = "create", !.todo = list_msps(DOMAIN msps),
                                                !.calls = @ \o calls]
    /\ UNCHANGED <<msps, dsps>>
    /\ UNCHANGED notMigrateVars

CreateAnswers(name) == IF name \in DOMAIN dsps THEN {"409", "error"} ELSE {"ok", "error"}

\* The head of the loop body: the name of the MayastorPool (a missing name
\* ends the pass with InvalidCRField), then create_v1beta1_cr, whose error is
\* logged and otherwise ignored.
MigrateCreate ==
    /\ mig.pc = "create"
    /\ IF Head(mig.todo) = None
       THEN /\ mig' = Migrated(<<>>, "InvalidCRField")
            /\ UNCHANGED dsps
       ELSE LET name == Unwrap(Head(mig.todo))
            IN  \E a \in CreateAnswers(name) :
                  /\ dsps' = IF a = "ok"
                             THEN [n \in DOMAIN dsps \cup {name} |->
                                      IF n = name THEN DiskPoolSpec_new(msps[name].node, msps[name].disks)
                                      ELSE dsps[n]]
                             ELSE dsps
                  /\ mig' = [mig EXCEPT !.pc = "delete",
                                        !.calls = @ \o <<Call("create_v1beta1_cr", a)>>]
    /\ UNCHANGED msps
    /\ UNCHANGED notMigrateVars

\* The rest of the loop body: delete the MayastorPool, whatever the creation
\* answered; an error of the deletion is logged and otherwise ignored.
MigrateDelete ==
    /\ mig.pc = "delete"
    /\ LET name == Unwrap(Head(mig.todo))
       IN  \E a \in {"ok", "error"} :
             /\ msps' = IF a = "ok" THEN [n \in DOMAIN msps \ {name} |-> msps[n]] ELSE msps
             /\ mig' = IF Tail(mig.todo) = <<>>
                       THEN [Migrated(<<Call("delete", a)>>, "ok") EXCEPT !.todo = <<>>]
                       ELSE [mig EXCEPT !.pc = "create", !.todo = Tail(@),
                                        !.calls = @ \o <<Call("delete", a)>>]
    /\ UNCHANGED dsps
    /\ UNCHANGED notMigrateVars

\* The operator process starts again and runs the migration once more.
MigrateRestart ==
    /\ mig.pc = "done"
    /\ mig.runs < MaxRuns
    /\ mig' = [mig EXCEPT !.pc = "idle", !.todo = <<>>, !.calls = <<>>, !.result = "", !.runs = @ + 1]
    /\ UNCHANGED <<msps, dsps>>
    /\ UNCHANGED notMigrateVars

MigrateNext ==
    \/ migrate_and_clean_msps
    \/ MigrateCreate
    \/ MigrateDelete
    \/ MigrateRestart

MigrateSpec == MigrateInit /\ [][MigrateNext]_vars

\* C27: during the startup migration no declared pool is missing from both
\* kinds: each MayastorPool the namespace held at the start is still there or
\* has a DiskPool of the same name, at every point of the pass and after it.
NoPoolLost ==
    \A name \in mig.declared : name \in DOMAIN msps \/ name \in DOMAIN dsps

\* C28: no answer of the data plane or of the REST API and no ordering of
\* watch events makes the reconciler panic: every finished pass, whatever its
\* path (create_or_import after a failed put, the finalizer cleanup, the
\* upsert of a repeated event), ends with a result, Ok(action) or Err(error).
ReconcilerNeverPanics ==
    PassDone => PassResult.kind \in {"requeue", "await_change", "error"}

\* The --retries argument of the operator, at the least value it admits.
retries == 1

\* C29: there is a maximum retry limit: a pass that fails when the context of
\* the resource already counts `retries` passes within the same state (the
\* same resource version) is not requeued by the error policy; the controller
\* awaits a change of the resource.
RetryLimit ==
    (/\ PassDone
     /\ PassResult.kind = "error"
     /\ pass.policy # None
     /\ inventory # None
     /\ Unwrap(inventory).num_retries >= retries) =>
        Unwrap(pass.policy).kind = "await_change"

\* ---------------------------------------------------------------------------
\* The weighted sort (scheduling/mod.rs, SortBuilder and ResourceFilter::sort)
\* ---------------------------------------------------------------------------

MaxItems == 3
MaxCriterias == 2

\* A pool item, as far as the criteria see it: the position at which it was
\* inserted into the list and the values the value functions read.
ValueFns == {"free_space", "len"}
SortItems == [id : 1..MaxItems, free_space : 0..1, len : 0..1]

\* SortCriteria: the weight of the criteria, the grading and the value function.
SortCriteria_new(weight, grading, fn) == [weight |-> weight, grading |-> grading, value_fn |-> fn]

\* The functions with_criteria is called with: each builds one criteria.
SortCriterias ==
    {SortCriteria_new(25, "Higher", "free_space"), SortCriteria_new(75, "Lower", "free_space"),
     SortCriteria_new(75, "Higher", "len"), SortCriteria_new(25, "Lower", "len")}

value_fn(criteria, item) ==
    IF criteria.value_fn = "free_space" THEN item.free_space ELSE item.len

\* std::cmp::Ordering and Ord::cmp on integers.
cmp(x, y) == IF x < y THEN "Less" ELSE IF x = y THEN "Equal" ELSE "Greater"
reverse(o) == IF o = "Less" THEN "Greater" ELSE IF o = "Greater" THEN "Less" ELSE "Equal"

\* WeightedScore::dual_values: the scores of the two values, nothing weighed.
dual_values == [a |-> 0, b |-> 0]

\* weigh: the weighted value is added to the score of its item when the higher
\* value is the better one, and to the score of the other item when the
\* lower value is the better one.
weigh(weighted_score, criteria, value_a, value_b) ==
    IF criteria.grading = "Higher"
    THEN [a |-> weighted_score.a + criteria.weight * value_a,
          b |-> weighted_score.b + criteria.weight * value_b]
    ELSE [a |-> weighted_score.a + criteria.weight * value_b,
          b |-> weighted_score.b + criteria.weight * value_a]

\* score: the pair of the summed weighted scores.
score(weighted_score) == Some(<<weighted_score.a, weighted_score.b>>)

\* The loop of compare over the criteria.
RECURSIVE weighted(_, _, _, _)
weighted(criterias, a, b, weighted_score) ==
    IF criterias = <<>> THEN weighted_score
    ELSE weighted(Tail(criterias), a, b,
                  weigh(weighted_score, Head(criterias),
                        value_fn(Head(criterias), a), value_fn(Head(criterias), b)))

compare_ascending(criterias, a, b) ==
    LET scores == Unwrap(score(weighted(criterias, a, b, dual_values)))
    IN  cmp(scores[1], scores[2])

\* SortBuilder::compare: score_b.cmp(&score_a).
compare(criterias, a, b) ==
    LET scores == Unwrap(score(weighted(criterias, a, b, dual_values)))
    IN  cmp(scores[2], scores[1])

\* Vec::sort_by, a stable sort: each item is inserted after the items sorted
\* so far that do not compare Greater than it.
RECURSIVE insert_sorted(_, _, _)
insert_sorted(criterias, done, item) ==
    IF done = <<>> THEN <<item>>
    ELSE IF compare(criterias, done[Len(done)], item) = "Greater"
         THEN insert_sorted(criterias, SubSeq(done, 1, Len(done) - 1), item) \o <<done[Len(done)]>>
         ELSE done \o <<item>>

RECURSIVE sort_by(_, _)
sort_by(criterias, l) ==
    IF l = <<>> THEN <<>>
    ELSE insert_sorted(criterias, sort_by(criterias, SubSeq(l, 1, Len(l) - 1)), l[Len(l)])

SortInit ==
    /\ SchedIdle
    /\ UpsertIdle
    /\ RegistryIdle
    /\ GuardsIdle
    /\ OperatorIdle
    /\ MigrateIdle
    /\ OrderIdle
    /\ CallIdle
    /\ sort_criterias = <<>>
    /\ \E n \in 0..MaxItems :
         /\ items \in [1..n -> SortItems]
         /\ \A i \in 1..n : items[i].id = i
    /\ sorted = None

\* SortBuilder::with_criteria
with_criteria ==
    /\ sorted = None
    /\ Len(sort_criterias) < MaxCriterias
    /\ \E sort_criteria \in SortCriterias : sort_criterias' = Append(sort_criterias, sort_criteria)
    /\ UNCHANGED <<items, sorted>>
    /\ UNCHANGED notSortVars

\* ResourceFilter::sort with the comparator of the builder.
sort ==
    /\ sorted = None
    /\ sorted' = Some(sort_by(sort_criterias, items))
    /\ UNCHANGED <<sort_criterias, items>>
    /\ UNCHANGED notSortVars

SortNext ==
    \/ with_criteria
    \/ sort

SortSpec == SortInit /\ [][SortNext]_vars

\* The places of the item inserted at position id in the list l.
Places(l, id) == {i \in 1..Len(l) : l[i].id = id}

PoolStatus == {"Unknown", "Online", "Degraded", "Faulted"}

\* impl PartialOrd for PoolStatus: Option<Ordering>, arm by arm.
PoolStatus_partial_cmp(self, other) ==
    CASE self = "Unknown" ->
           (CASE other = "Unknown"  -> None
              [] other = "Online"   -> Some("Less")
              [] other = "Degraded" -> Some("Less")
              [] other = "Faulted"  -> None)
      [] self = "Online" ->
           (CASE other = "Unknown"  -> Some("Greater")
              [] other = "Online"   -> Some("Equal")
              [] other = "Degraded" -> Some("Greater")
              [] other = "Faulted"  -> Some("Greater"))
      [] self = "Degraded" ->
           (CASE other = "Unknown"  -> Some("Greater")
              [] other = "Online"   -> Some("Less")
              [] other = "Degraded" -> Some("Equal")
              [] other = "Faulted"  -> Some("Greater"))
      [] self = "Faulted" ->
           (CASE other = "Unknown"  -> None
              [] other = "Online"   -> Some("Less")
              [] other = "Degraded" -> Some("Less")
              [] other = "Faulted"  -> Some("Equal"))

\* The pairs of operands a comparator is applied to.
Pairs == (1..3) \X (1..3)

PoolStatusInit ==
    /\ SchedIdle
    /\ UpsertIdle
    /\ RegistryIdle
    /\ GuardsIdle
    /\ OperatorIdle
    /\ MigrateIdle
    /\ SortIdle
    /\ CallIdle
    /\ operands \in [1..3 -> PoolStatus]
    /\ orderings = None

\* The statuses of three pools are compared with each other.
ComparePoolStatus ==
    /\ orderings = None
    /\ orderings' = Some([p \in Pairs |-> PoolStatus_partial_cmp(operands[p[1]], operands[p[2]])])
    /\ UNCHANGED operands
    /\ UNCHANGED notOrderVars

PoolStatusNext == ComparePoolStatus

PoolStatusSpec == PoolStatusInit /\ [][PoolStatusNext]_vars

\* C31: PoolStatus::partial_cmp orders Online above Degraded, Unknown and
\* Faulted, and Degraded above Unknown and Faulted, leaves Faulted and Unknown
\* incomparable, compares every status Equal to itself, and is antisymmetric
\* and transitive over the four statuses.
PoolStatusOrder ==
    orderings # None =>
        LET o == Unwrap(orderings)
            Above(i, j) == o[<<i, j>>] = Some("Greater") /\ o[<<j, i>>] = Some("Less")
        IN  /\ \A i \in 1..3 : o[<<i, i>>] = Some("Equal")
            /\ \A i, j \in 1..3 :
                 /\ operands[i] = "Online" /\ operands[j] \in {"Degraded", "Unknown", "Faulted"} => Above(i, j)
                 /\ operands[i] = "Degraded" /\ operands[j] \in {"Unknown", "Faulted"} => Above(i, j)
                 /\ operands[i] = "Faulted" /\ operands[j] = "Unknown" => o[<<i, j>>] = None /\ o[<<j, i>>] = None
                 /\ o[<<i, j>>] = Some("Less") <=> o[<<j, i>>] = Some("Greater")
                 /\ o[<<i, j>>] = Some("Equal") <=> o[<<j, i>>] = Some("Equal")
            /\ o[<<1, 2>>] \in {Some("Less"), Some("Equal")} /\ o[<<2, 3>>] \in {Some("Less"), Some("Equal")}
                 => o[<<1, 3>>] \in {Some("Less"), Some("Equal")}

\* ---------------------------------------------------------------------------
\* The order of the replicas for removal (scheduling/mod.rs, ChildSorters)
\* ---------------------------------------------------------------------------

\* The state of a nexus child, ordered as the status of a pool is.
ChildState == {"Unknown", "Online"}
ChildState_partial_cmp(self, other) == PoolStatus_partial_cmp(self, other)

\* ReplicaItem, as far as the sorters read it: whether the replica is shared,
\* the persisted child info, the child of the nexus and its state, and the
\* number of replicas of the affinity group on the pool of the replica.
ChildInfos == {None, Some([healthy |-> TRUE]), Some([healthy |-> FALSE])}
ChildStates == {None} \cup {Some(s) : s \in [state : ChildState, rebuild_progress : 0..1]}
ReplicaItems ==
    {r \in [shared : BOOLEAN, child_info : ChildInfos, child_spec : {None, Some("child")},
            child_state : ChildStates, ag_replicas_on_pool : 0..1] :
        r.child_spec = None => r.child_state = None}

\* sort_by_health: prefer healthy replicas over unhealthy.
sort_by_health(a, b) ==
    IF a.child_info = None
    THEN IF b.child_info # None /\ Unwrap(b.child_info).healthy THEN "Less" ELSE "Equal"
    ELSE IF b.child_info # None /\ Unwrap(a.child_info).healthy /\ ~Unwrap(b.child_info).healthy
         THEN "Greater"
         ELSE IF b.child_info # None /\ ~Unwrap(a.child_info).healthy /\ Unwrap(b.child_info).healthy
              THEN "Less"
              ELSE "Equal"

\* sort_by_child: the replica that is not part of a nexus, then the child
\* states, and the rebuild progress when the states are incomparable.
sort_by_child(a, b) ==
    IF a.child_spec = None
    THEN IF b.child_spec = None THEN "Equal" ELSE "Greater"
    ELSE IF b.child_spec = None THEN "Less"
    ELSE IF a.child_state # None /\ b.child_state # None
         THEN LET a_state == Unwrap(a.child_state)
                  b_state == Unwrap(b.child_state)
                  ord == ChildState_partial_cmp(a_state.state, b_state.state)
              IN  IF ord = None THEN cmp(a_state.rebuild_progress, b_state.rebuild_progress)
                  ELSE Unwrap(ord)
         ELSE IF a.child_state # None THEN "Less"
         ELSE IF b.child_state # None THEN "Greater"
         ELSE "Equal"

sort_by_ag_replicas_unreversed(a, b) == cmp(a.ag_replicas_on_pool, b.ag_replicas_on_pool)

\* The last key: the comparison of ag_replicas_on_pool, reversed.
sort_by_ag_replicas(a, b) ==
    LET ord == cmp(a.ag_replicas_on_pool, b.ag_replicas_on_pool)
    IN  IF ord = "Less" THEN "Greater" ELSE IF ord = "Equal" THEN "Equal" ELSE "Less"

\* ChildSorters::sort
ChildSorters_sort(a, b) ==
    IF sort_by_health(a, b) = "Equal"
    THEN IF sort_by_child(a, b) = "Equal"
         THEN LET childa_is_local == ~a.shared
                  childb_is_local == ~b.shared
              IN  IF childa_is_local = childb_is_local THEN sort_by_ag_replicas(a, b)
                  ELSE IF childa_is_local THEN "Greater"
                  ELSE "Less"
         ELSE sort_by_child(a, b)
    ELSE sort_by_health(a, b)

ChildSortInit ==
    /\ SchedIdle
    /\ UpsertIdle
    /\ RegistryIdle
    /\ GuardsIdle
    /\ OperatorIdle
    /\ MigrateIdle
    /\ SortIdle
    /\ CallIdle
    /\ operands \in [1..3 -> ReplicaItems]
    /\ orderings = None

\* Three replicas of a volume are compared with each other.
CompareReplicas ==
    /\ orderings = None
    /\ orderings' = Some([p \in Pairs |-> ChildSorters_sort(operands[p[1]], operands[p[2]])])
    /\ UNCHANGED operands
    /\ UNCHANGED notOrderVars

ChildSortNext == CompareReplicas

ChildSortSpec == ChildSortInit /\ [][ChildSortNext]_vars

\* The keys of the order, as the claims name them.
HealthDiffers(a, b) ==
    a.child_info # None /\ b.child_info # None /\ Unwrap(a.child_info).healthy # Unwrap(b.child_info).healthy
LocalityKey(a, b) == IF a.shared = b.shared THEN "Equal" ELSE IF ~a.shared THEN "Greater" ELSE "Less"
EqualOnThreeKeys(a, b) ==
    sort_by_health(a, b) = "Equal" /\ sort_by_child(a, b) = "Equal" /\ LocalityKey(a, b) = "Equal"
Lexicographic(o, a, b) ==
    /\ sort_by_health(a, b) # "Equal" => o = sort_by_health(a, b)
    /\ sort_by_health(a, b) = "Equal" /\ sort_by_child(a, b) # "Equal" => o = sort_by_child(a, b)
    /\ sort_by_health(a, b) = "Equal" /\ sort_by_child(a, b) = "Equal" /\ LocalityKey(a, b) # "Equal"
           => o = LocalityKey(a, b)
    /\ HealthDiffers(a, b) => o = IF Unwrap(a.child_info).healthy THEN "Greater" ELSE "Less"

ChildSortConsistent ==
    orderings # None =>
        LET o == Unwrap(orderings)
        IN  /\ \A p \in Pairs : o[p] = reverse(o[<<p[2], p[1]>>])
            /\ \A i \in 1..3 : o[<<i, i>>] = "Equal"
            /\ o[<<1, 2>>] # "Greater" /\ o[<<2, 3>>] # "Greater" => o[<<1, 3>>] # "Greater"

\* ---------------------------------------------------------------------------
\* The order of the replicas to add to a nexus (AddReplicaSorters)
\* ---------------------------------------------------------------------------

ChildNodes == {"nexus-node", "other-node"}

\* VolumeReplicasForNexusCtx::nexus_spec().node
nexus_spec_node == "nexus-node"

\* ChildItem, as far as the sorter reads it: the node of the replica, the
\* persisted child info and the free space of the pool of the replica.
ChildItems == [node : ChildNodes, info : ChildInfos, free_space : 0..2]

\* item.info().as_ref().map(|i| i.healthy).unwrap_or(false)
info_healthy(item) == IF item.info = None THEN FALSE ELSE Unwrap(item.info).healthy

\* AddReplicaSorters::sort
AddReplicaSorters_sort(a, b) ==
    LET a_is_local == a.node = nexus_spec_node
        b_is_local == b.node = nexus_spec_node
    IN  IF a_is_local /\ ~b_is_local THEN "Less"
        ELSE IF ~a_is_local /\ b_is_local THEN "Greater"
        ELSE LET a_healthy == info_healthy(a)
                 b_healthy == info_healthy(b)
             IN  IF a_healthy /\ ~b_healthy THEN "Less"
                 ELSE IF ~a_healthy /\ b_healthy THEN "Greater"
                 ELSE cmp(a.free_space, b.free_space)

AddReplicaSortInit ==
    /\ SchedIdle
    /\ UpsertIdle
    /\ RegistryIdle
    /\ GuardsIdle
    /\ OperatorIdle
    /\ MigrateIdle
    /\ SortIdle
    /\ CallIdle
    /\ operands \in [1..3 -> ChildItems]
    /\ orderings = None

\* Three replicas that can be added to the nexus are compared with each other.
CompareChildren ==
    /\ orderings = None
    /\ orderings' = Some([p \in Pairs |-> AddReplicaSorters_sort(operands[p[1]], operands[p[2]])])
    /\ UNCHANGED operands
    /\ UNCHANGED notOrderVars

AddReplicaSortNext == CompareChildren

AddReplicaSortSpec == AddReplicaSortInit /\ [][AddReplicaSortNext]_vars

\* C38: a replica local to the nexus node comes before one that is not; among
\* replicas of equal locality a healthy one comes before an unhealthy one; and
\* among replicas equal in locality and health the one whose pool has the
\* greater free space comes first.
AddReplicaRanks ==
    orderings # None =>
        \A p \in Pairs :
            LET a == operands[p[1]]
                b == operands[p[2]]
                o == Unwrap(orderings)[p]
                same_locality == (a.node = nexus_spec_node) = (b.node = nexus_spec_node)
                same_health == info_healthy(a) = info_healthy(b)
            IN  /\ a.node = nexus_spec_node /\ b.node # nexus_spec_node => o = "Less"
                /\ same_locality /\ info_healthy(a) /\ ~info_healthy(b) => o = "Less"
                /\ same_locality /\ same_health /\ a.free_space > b.free_space => o = "Less"

\* ---------------------------------------------------------------------------
\* PoolBaseFilters::overcommit in machine arithmetic (volume_policy/pool.rs)
\* ---------------------------------------------------------------------------

\* The u64 of the code is modelled by a word of WordBits bits.
WordBits == 8
Word == 2 ^ WordBits

\* The sum and the product of two words: the value when it fits; otherwise
\* the build decides: with overflow checks (a debug build) the operation
\* panics, without them (a release build) the value wraps around.
Overflowed == Word
u64_add(x, y, overflow_checks) ==
    IF x = Overflowed \/ y = Overflowed THEN Overflowed
    ELSE IF x + y < Word THEN x + y
    ELSE IF overflow_checks THEN Overflowed ELSE (x + y) % Word
u64_mul(x, y, overflow_checks) ==
    IF x = Overflowed \/ y = Overflowed THEN Overflowed
    ELSE IF x * y < Word THEN x * y
    ELSE IF overflow_checks THEN Overflowed ELSE (x * y) % Word

\* PoolBaseFilters::overcommit on words: "true", "false", or "panic" when an
\* operation overflowed under overflow checks.
PoolBaseFilters_overcommit_u64(thin, size, commitment_, capacity, allowed_commit_percent, overflow_checks) ==
    IF thin
    THEN LET max_cap_allowed == u64_mul(allowed_commit_percent, capacity, overflow_checks)
             needed == u64_mul(u64_add(size, commitment_, overflow_checks), 100, overflow_checks)
         IN  IF max_cap_allowed = Overflowed \/ needed = Overflowed THEN "panic"
             ELSE IF needed < max_cap_allowed THEN "true" ELSE "false"
    ELSE "true"

OvercommitArgs ==
    [thin : BOOLEAN, size : {0, 1, 2, 3}, commitment : {0, 1, 2, Word - 1},
     capacity : {0, 1, 2, 3, Word \div 2}, allowed_commit_percent : {0, 1, 2, 100, 250},
     overflow_checks : BOOLEAN]

OvercommitInit ==
    /\ SchedIdle
    /\ UpsertIdle
    /\ RegistryIdle
    /\ GuardsIdle
    /\ OperatorIdle
    /\ MigrateIdle
    /\ SortIdle
    /\ OrderIdle
    /\ invoked \in {Some(a) : a \in OvercommitArgs}
    /\ returned = None

\* The filter is applied to one pool for one request.
Overcommit ==
    /\ returned = None
    /\ LET a == Unwrap(invoked)
       IN  returned' = Some(PoolBaseFilters_overcommit_u64(a.thin, a.size, a.commitment, a.capacity,
                                                           a.allowed_commit_percent, a.overflow_checks))
    /\ UNCHANGED invoked
    /\ UNCHANGED notCallVars

OvercommitNext == Overcommit

OvercommitSpec == OvercommitInit /\ [][OvercommitNext]_vars

\* C39: the filter passes every thick request, and a thin request exactly
\* when (requested_size + committed) * 100 < capacity * allowed_commit_percent
\* over the unbounded integers, for all sizes, commitments, capacities and
\* percentages a word can hold.
OvercommitIsExact ==
    returned # None =>
        LET a == Unwrap(invoked)
        IN  Unwrap(returned) =
                IF ~a.thin THEN "true"
                ELSE IF (a.size + a.commitment) * 100 < a.capacity * a.allowed_commit_percent
                     THEN "true" ELSE "false"

\* ---------------------------------------------------------------------------
\* get_pools and get_replicas of the pool service (core/pool/service.rs)
\* ---------------------------------------------------------------------------

\* enum Filter, by variant.
Filters ==
    {"None", "Node", "Pool", "NodePool", "NodePoolReplica", "NodeReplica", "PoolReplica",
     "Replica", "Volume", "Nexus", "NodeNexus", "Snapshot", "VolumeSnapshot"}

\* What the registry lookups of each arm can fail with.
node_pools_errors(filter) ==
    CASE filter = "None"     -> {}
      [] filter = "Node"     -> {"NodeNotFound"}
      [] filter = "NodePool" -> {"NodeNotFound", "PoolNotFound"}
      [] filter = "Pool"     -> {"PoolNotFound"}

get_replicas_errors(filter) ==
    CASE filter = "None"            -> {}
      [] filter = "Node"            -> {"NodeNotFound"}
      [] filter = "NodePool"        -> {"NodeNotFound", "PoolNotFound"}
      [] filter = "Pool"            -> {"PoolNotFound"}
      [] filter = "NodePoolReplica" -> {"NodeNotFound", "PoolNotFound", "ReplicaNotFound"}
      [] filter = "NodeReplica"     -> {"NodeNotFound", "ReplicaNotFound"}
      [] filter = "PoolReplica"     -> {"PoolNotFound", "ReplicaNotFound"}
      [] filter = "Replica"         -> {"ReplicaNotFound"}
      [] filter = "Volume"          -> {"VolumeNotFound"}

\* The filters each operation has an arm for; every other one takes `_`.
get_pools_filters == {"None", "Node", "NodePool", "Pool"}
get_replicas_filters ==
    {"None", "Node", "NodePool", "Pool", "NodePoolReplica", "NodeReplica", "PoolReplica",
     "Replica", "Volume"}

\* impl From<SvcError> for ReplyError, for the errors of the two operations.
ReplyError_from(error) ==
    CASE error = "NodeNotFound"    -> [kind |-> "NotFound", resource |-> "Node"]
      [] error = "PoolNotFound"    -> [kind |-> "NotFound", resource |-> "Pool"]
      [] error = "ReplicaNotFound" -> [kind |-> "NotFound", resource |-> "Replica"]
      [] error = "VolumeNotFound"  -> [kind |-> "NotFound", resource |-> "Volume"]
      [] error = "InvalidFilter"   -> [kind |-> "Internal", resource |-> "Unknown"]

\* The result of a service operation: Ok or the SvcError, whether the registry
\* was read, and the reply on the wire once the result was converted.
SvcResult(svc, registry) == [svc |-> svc, registry |-> registry, reply |-> None]

GetInit ==
    /\ SchedIdle
    /\ UpsertIdle
    /\ RegistryIdle
    /\ GuardsIdle
    /\ OperatorIdle
    /\ MigrateIdle
    /\ SortIdle
    /\ OrderIdle
    /\ invoked \in {Some(c) : c \in [op : {"get_pools", "get_replicas"}, filter : Filters]}
    /\ returned = None

\* Service::get_pools
get_pools ==
    /\ invoked # None /\ Unwrap(invoked).op = "get_pools"
    /\ returned = None
    /\ LET filter == Unwrap(invoked).filter
       IN  IF filter \in get_pools_filters
           THEN \E answer \in {"Ok"} \cup node_pools_errors(filter) :
                    returned' = Some(SvcResult(answer, TRUE))
           ELSE returned' = Some(SvcResult("InvalidFilter", FALSE))
    /\ UNCHANGED invoked
    /\ UNCHANGED notCallVars

\* Service::get_replicas
get_replicas ==
    /\ invoked # None /\ Unwrap(invoked).op = "get_replicas"
    /\ returned = None
    /\ LET filter == Unwrap(invoked).filter
       IN  IF filter \in get_replicas_filters
           THEN \E answer \in {"Ok"} \cup get_replicas_errors(filter) :
                    returned' = Some(SvcResult(answer, TRUE))
           ELSE returned' = Some(SvcResult("InvalidFilter", FALSE))
    /\ UNCHANGED invoked
    /\ UNCHANGED notCallVars

\* PoolOperations::get and ReplicaOperations::get: the `?` converts the
\* SvcError into the ReplyError that goes on the wire.
Reply ==
    /\ returned # None
    /\ Unwrap(returned).reply = None
    /\ returned' = Some([Unwrap(returned) EXCEPT !.reply =
                            IF Unwrap(returned).svc = "Ok" THEN Some([kind |-> "Ok", resource |-> ""])
                            ELSE Some(ReplyError_from(Unwrap(returned).svc))])
    /\ UNCHANGED invoked
    /\ UNCHANGED notCallVars

GetNext ==
    \/ get_pools
    \/ get_replicas
    \/ Reply

GetSpec == GetInit /\ [][GetNext]_vars

Unsupported(call) ==
    \/ call.op = "get_pools" /\ call.filter \notin get_pools_filters
    \/ call.op = "get_replicas" /\ call.filter \notin get_replicas_filters

\* C40: a get_pools or get_replicas request with a filter the operation does
\* not support is rejected without touching the registry, and its error is
\* reported on the wire with kind InvalidArgument.
BadFilterIsInvalidArgument ==
    (returned # None /\ Unsupported(Unwrap(invoked))) =>
        /\ ~Unwrap(returned).registry
        /\ Unwrap(returned).svc = "InvalidFilter"
        /\ Unwrap(returned).reply # None => Unwrap(Unwrap(returned).reply).kind = "InvalidArgument"

\* The answers of a call recorded in the calls of a pass.
AnswersOf(calls, name) == {calls[i].answer : i \in {j \in 1..Len(calls) : calls[j].name = name}}

\* C32: the finalizer cleanup releases the CR (returns Ok and takes the entry
\* out of the inventory) only when get_node_pool answered 404 or del_node_pool
\* answered 200 or 404; when get_node_pool or del_node_pool fails in another
\* way, or the Terminating patch fails, the cleanup returns the error, the
\* entry stays in the inventory and the finalizer stays on the CR.
CleanupReleasesSafely ==
    LET get == AnswersOf(Finalized, "get_node_pool")
        del == AnswersOf(Finalized, "del_node_pool")
        patch == AnswersOf(Finalized, "patch_status")
        released == "remove" \in CallNames(Finalized)
        failed == \/ get \cap {"503", "408", "500", "request"} # {}
                  \/ del \cap {"500", "request"} # {}
                  \/ "error" \in patch
    IN  pass.pc \in {"idle", "dispatch"} /\ pass.dsp # None =>
            /\ released => /\ "404" \in get \/ del \cap {"200", "404"} # {}
                           /\ ~failed
                           /\ pass.cleanup # None /\ Unwrap(pass.cleanup).kind # "error"
                           /\ pass.pc = "dispatch" => inventory = None
            /\ failed => /\ ~released
                         /\ pass.cleanup # None /\ Unwrap(pass.cleanup).kind = "error"
                         /\ "delete_finalizer" \notin CallNames(Finalized)
                         /\ pass.pc = "dispatch" => inventory # None /\ cr.finalizer
            /\ pass.cleanup # None => released \/ failed

\* The pool was destroyed on the control plane and the CR was released.
CleanupReleasesSafelyWitness ==
    /\ PassDone
    /\ Answered(Finalized, "get_node_pool", "200")
    /\ Answered(Finalized, "del_node_pool", "200")
    /\ pass.cleanup = Some(AwaitChange)
    /\ inventory = None
    /\ cp = None
    /\ ~cr.exists

\* C33: once the status of the CR has reached cr_state Created, no pass of
\* the operator gets to create_or_import, the only caller of put_node_pool,
\* for that CR again.
CreatedIsNotRecreated == cr.exists /\ cr.created => pass.pc # "create_or_import"

\* The calls of the pass that follow ctx.remove.
AfterRemove ==
    SubSeq(pass.calls, CallAt(pass.calls, "remove") + 1, Len(pass.calls))

\* C34: in a pass whose cleanup removed the resource from the inventory,
\* nothing else is done for the resource: after the removal the pass only
\* returns from the finalizer and finds the inventory without the resource,
\* so neither put_node_pool nor get_node_pool nor a patch of the status
\* follows, no event is posted, the inventory stays without the resource, and
\* the pass ends with await_change.
RemovedEndsPass ==
    Answered(pass.calls, "remove", "removed") =>
        /\ pass.pc \in {"dispatch", "idle"}
        /\ CallNames(AfterRemove) \subseteq {"delete_finalizer", "finalizer", "inventory_contains"}
        /\ ~Dispatched
        /\ inventory = None
        /\ pass.pc = "idle" =>
               /\ pass.result = Some(AwaitChange)
               /\ pass.calls[Len(pass.calls)] = Call("inventory_contains", "false")
RemovedEndsPassWitness ==
    /\ PassDone
    /\ Answered(pass.calls, "remove", "removed")
    /\ Answered(pass.calls, "get_node_pool", "200")
    /\ pass.calls[Len(pass.calls)] = Call("inventory_contains", "false")
    /\ PassResult = AwaitChange

\* ------------------------------------------------------------------------
\* OperatorContext::upsert under watch events, status patches and requeues
\* (k8s/operators/src/pool/context.rs)
\* ------------------------------------------------------------------------
\* The API server gives every write of a DiskPool a fresh resource version;
\* the controller hands reconcile an object the API server has served: the
\* latest one, an older one out of its cache, or the same one again on a
\* requeue.
MaxRevision == 3
CrNames == {"pool-1", "pool-2"}
CrStatuses ==
    {None} \cup {Some([cr_state |-> s]) : s \in {"Creating", "Created"}}

UpsertInit ==
    /\ SchedIdle
    /\ RegistryIdle
    /\ GuardsIdle
    /\ OperatorIdle
    /\ MigrateIdle
    /\ SortIdle
    /\ OrderIdle
    /\ CallIdle
    /\ revision = 0
    /\ issued = {}
    /\ contexts = [n \in CrNames |-> None]
    /\ upserted = None

\* upsert: the context found under the name carries the resource version of
\* the incoming resource.
same_resource_version_always(p, resource) == TRUE
same_resource_version(p, resource) ==
    p.inner.resource_version = resource.resource_version

\* OperatorContext::upsert on the inventory i: the inventory after the call,
\* the context returned, and whether assert_eq! on the statuses panicked (the
\* inventory is then as it was).
OperatorContext_upsert(i, resource) ==
    LET name == resource.name
        new == [inner |-> resource, num_retries |-> 0]
        inserted == [inventory |-> [i EXCEPT ![name] = Some(new)],
                     returned |-> Some(new), panic |-> FALSE]
    IN  IF IsSome(i[name])
        THEN LET p == Unwrap(i[name])
                 retried == [p EXCEPT !.num_retries = @ + 1]
             IN  IF same_resource_version(p, resource)
                 THEN IF IsSome(resource.status)
                         /\ Unwrap(resource.status).cr_state = "Created"
                      THEN [inventory |-> i, returned |-> Some(p), panic |-> FALSE]
                      ELSE IF p.inner.status # resource.status
                      THEN [inventory |-> i, returned |-> None, panic |-> TRUE]
                      ELSE [inventory |-> [i EXCEPT ![name] = Some(retried)],
                            returned |-> Some(retried), panic |-> FALSE]
                 ELSE inserted
        ELSE inserted

\* The API server accepts a write of the DiskPool n (its creation, a patch of
\* its status by the operator, an edit, its creation anew after a deletion)
\* and serves the object under a fresh resource version.
ApiWrite ==
    /\ revision < MaxRevision
    /\ \E n \in CrNames, st \in CrStatuses :
         /\ revision' = revision + 1
         /\ issued' = issued \cup
                {[name |-> n, resource_version |-> revision + 1, status |-> st]}
    /\ UNCHANGED <<contexts, upserted, notUpsertVars>>

\* reconcile is called with an object the API server has served and upserts
\* it into the inventory.
UpsertEvent ==
    /\ \E resource \in issued :
         LET r == OperatorContext_upsert(contexts, resource)
         IN  /\ r.returned # None => Unwrap(r.returned).num_retries <= RetryBound
             /\ contexts' = r.inventory
             /\ upserted' = Some([resource |-> resource,
                                  before |-> contexts[resource.name],
                                  stored |-> r.inventory[resource.name],
                                  returned |-> r.returned,
                                  panic |-> r.panic])
    /\ UNCHANGED <<revision, issued, notUpsertVars>>

\* OperatorContext::remove: the finalizer cleanup takes the context of the
\* DiskPool n out of the inventory.
RemoveContext ==
    /\ \E n \in CrNames :
         /\ contexts[n] # None
         /\ contexts' = [contexts EXCEPT ![n] = None]
    /\ UNCHANGED <<revision, issued, upserted, notUpsertVars>>

UpsertNext == ApiWrite \/ UpsertEvent \/ RemoveContext
UpsertSpec == UpsertInit /\ [][UpsertNext]_vars

\* C35: the assertion of upsert never fails and the inventory stays keyed by
\* the name of its contexts.  Whenever the incoming resource has the resource
\* version of the context stored under its name, both carry the same status;
\* the stored context then keeps its resource and its retry counter grows by
\* exactly one, unless the status is Created, where it is left as it is.  A
\* resource with another resource version, or one whose name has no context,
\* replaces the context by one with the retry counter 0.  upsert returns the
\* context it leaves in the inventory.
UpsertAssertionHolds ==
    /\ \A n \in CrNames : contexts[n] # None => Unwrap(contexts[n]).inner.name = n
    /\ upserted # None =>
         LET u == Unwrap(upserted)
             same == /\ u.before # None
                     /\ Unwrap(u.before).inner.resource_version = u.resource.resource_version
             created == u.resource.status = Some([cr_state |-> "Created"])
         IN  /\ ~u.panic
             /\ u.returned = u.stored
             /\ same => /\ Unwrap(u.before).inner.status = u.resource.status
                        /\ Unwrap(u.stored).inner = Unwrap(u.before).inner
                        /\ Unwrap(u.stored).num_retries =
                               Unwrap(u.before).num_retries + (IF created THEN 0 ELSE 1)
             /\ ~same => u.stored = Some([inner |-> u.resource, num_retries |-> 0])
UpsertAssertionHoldsWitness ==
    /\ upserted # None
    /\ Unwrap(upserted).before # None
    /\ Unwrap(Unwrap(upserted).before).inner.resource_version
           = Unwrap(upserted).resource.resource_version
    /\ Unwrap(upserted).resource.status = Some([cr_state |-> "Creating"])
    /\ Unwrap(Unwrap(upserted).stored).num_retries = 2
    /\ \A n \in CrNames : contexts[n] # None
    /\ revision = MaxRevision

====
